---- MODULE Spec2Model ----
(***************************************************************************)
(* Ticket lifecycle and test-gate state machine of pmc-marketplace         *)
(* (plugins/pmc/skills/ticket-status/scripts/check_ticket.py and           *)
(* check_tests.py).                                                        *)
(*                                                                         *)
(* The tools are read-only: one run reads the ticket's documents and its   *)
(* test manifest and derives a next-step classification.  The artifacts    *)
(* are drawn in Init; the action CheckTicket is one run of check_ticket.py *)
(* and the action CheckTests is one run of check_tests.py.                 *)
(***************************************************************************)
EXTENDS Integers, Sequences, FiniteSets, TLC

VARIABLES
    fs,            \* the artifacts under the docs path
    status,        \* the TicketStatus returned by check_ticket
    pc,            \* position of the check_ticket.py process
    exit_code,     \* exit status of the check_ticket.py process
    tests_status,  \* the TestsCheckStatus returned by check_tests.py
    tests_pc,      \* position of the check_tests.py process
    tests_exit,    \* exit status of the check_tests.py process
    writes_left,   \* writes the concurrent writer of the artifacts has left
    snapshots,     \* artifact contents that existed during the current run
    phase_status,  \* the PhaseStatus returned by check_phase
    phase_exit,    \* exit status of the check_phase.py process
    integrity_status,  \* the IntegrityStatus returned by check_integrity
    integrity_exit,    \* exit status of the check_integrity.py process
    result,        \* the ValidationResult returned by validate_ticket
    validate_exit  \* exit status of the validate_plan.py process

\* The writer of the artifacts and the history of the current run.
writer == <<writes_left, snapshots>>

\* The processes of check_phase.py, check_integrity.py and validate_plan.py.
others ==
    <<phase_status, phase_exit, integrity_status, integrity_exit,
      result, validate_exit>>

vars ==
    <<fs, status, pc, exit_code, tests_status, tests_pc, tests_exit,
      writer, others>>

(* ------------------------------------------------------------------ *)
(* Bounds                                                              *)
(* ------------------------------------------------------------------ *)

\* Largest number of records in a test manifest.
MaxTests == 2

\* Largest number of lines of a document drawn line by line.
MaxLines == 4

\* Largest number of test-case lines of a specification document.
MaxCases == 2

(* ------------------------------------------------------------------ *)
(* Program constants                                                   *)
(* ------------------------------------------------------------------ *)

REQUIRED_DOCS == <<"1-definition.md", "2-plan.md", "3-spec.md">>

PROGRESS_DOC == "4-progress.md"

FINAL_DOC == "5-final.md"

\* check_doc: content is meaningful if len(content) > 50.
MinContent == 50

ticket_id == "T00099"

(* ------------------------------------------------------------------ *)
(* Text: characters, case mapping, lines                               *)
(* ------------------------------------------------------------------ *)

LowerCase == <<"a", "b", "c", "d", "e", "k", "l", "m", "o", "p", "s", "t">>

UpperCase == <<"A", "B", "C", "D", "E", "K", "L", "M", "O", "P", "S", "T">>

\* U+212A KELVIN SIGN: an upper-case letter whose lower case is "k".
KELVIN == "U+212A"

\* str.upper() on one character.
Upper(c) ==
    IF \E i \in 1..Len(LowerCase) : LowerCase[i] = c
    THEN UpperCase[CHOOSE i \in 1..Len(LowerCase) : LowerCase[i] = c]
    ELSE c

\* Case folding used by re.IGNORECASE on one character.
Fold(c) ==
    IF c = KELVIN THEN "k"
    ELSE IF \E i \in 1..Len(UpperCase) : UpperCase[i] = c
         THEN LowerCase[CHOOSE i \in 1..Len(UpperCase) : UpperCase[i] = c]
         ELSE c

UpperStr(w) == [i \in 1..Len(w) |-> Upper(w[i])]

FoldStr(w) == [i \in 1..Len(w) |-> Fold(w[i])]

COMPLETE == <<"C", "O", "M", "P", "L", "E", "T", "E">>

BLOCKED == <<"B", "L", "O", "C", "K", "E", "D">>

\* Python None (final_status unset).
None == <<>>

\* A line of a markdown document: its kind and, for a "Status: <word>" line,
\* the word after the label.
Line(kind) == [kind |-> kind, word |-> <<>>]

StatusLine(word) == [kind |-> "status", word |-> word]

\* Number of characters of a line (without its newline).
LineLen(l) ==
    CASE l.kind = "blank" -> 0
      [] l.kind = "prose" -> 60
      [] l.kind = "stub" -> 12
      [] l.kind = "tdd_no" -> 9
      [] l.kind = "tdd_yes" -> 10
      [] l.kind = "status" -> 8 + Len(l.word)
      [] l.kind = "bullet" -> 2 + Len(l.word)
      [] l.kind = "row" -> 4 + Len(l.word)
      [] l.kind = "h3_test" -> 4 + Len(l.word)
      [] OTHER -> 14

\* A file: absent, or a sequence of newline-terminated lines.
Absent == [exists |-> FALSE, lines |-> <<>>]

File(lines) == [exists |-> TRUE, lines |-> lines]

RECURSIVE StripLeft(_)
StripLeft(lines) ==
    IF lines # <<>> /\ Head(lines).kind = "blank"
    THEN StripLeft(Tail(lines))
    ELSE lines

RECURSIVE StripRight(_)
StripRight(lines) ==
    IF lines # <<>> /\ lines[Len(lines)].kind = "blank"
    THEN StripRight(SubSeq(lines, 1, Len(lines) - 1))
    ELSE lines

RECURSIVE SumLen(_)
SumLen(lines) ==
    IF lines = <<>> THEN 0 ELSE LineLen(Head(lines)) + SumLen(Tail(lines))

\* len(content.strip()): the lines' characters plus the newlines between them.
StrippedLen(lines) ==
    LET s == StripRight(StripLeft(lines))
    IN  IF s = <<>> THEN 0 ELSE SumLen(s) + Len(s) - 1

(* ------------------------------------------------------------------ *)
(* check_doc, parse_final_status, check_tdd_enabled                    *)
(* ------------------------------------------------------------------ *)

DocStatus(exists, has_content) == [exists |-> exists, has_content |-> has_content]

check_doc(file) ==
    IF ~file.exists
    THEN DocStatus(FALSE, FALSE)
    ELSE DocStatus(TRUE, StrippedLen(file.lines) > MinContent)

\* re.search(r'Status:\s*(COMPLETE|BLOCKED)', content, re.IGNORECASE) on a line
StatusMatches(l) ==
    /\ l.kind = "status"
    /\ FoldStr(l.word) \in {FoldStr(COMPLETE), FoldStr(BLOCKED)}

\* The last match instead of the first.
parse_final_status_LastMatch(file) ==
    IF ~file.exists
    THEN None
    ELSE LET hits == {i \in 1..Len(file.lines) : StatusMatches(file.lines[i])}
         IN  IF hits = {}
             THEN None
             ELSE LET last == CHOOSE i \in hits : \A j \in hits : j <= i
                  IN  UpperStr(file.lines[last].word)

\* re.search returns the first match; group(1).upper()
parse_final_status(file) ==
    IF ~file.exists
    THEN None
    ELSE LET hits == {i \in 1..Len(file.lines) : StatusMatches(file.lines[i])}
         IN  IF hits = {}
             THEN None
             ELSE LET first == CHOOSE i \in hits : \A j \in hits : i <= j
                  IN  UpperStr(file.lines[first].word)

\* A line that starts with "##" (a level 2-4 heading).
IsSection(l) == l.kind \in {"h2_constraints", "h2_other", "h3_sub"}

\* group(1) of r'##\s*Constraints\s*\n(.*?)(?=\n##|\Z)' (DOTALL): the lines
\* after the Constraints heading and the blank lines that follow it, up to
\* the next line that follows a newline and starts with "##".
ConstraintsSection(lines, h) ==
    LET n == Len(lines)
        nonblank == {i \in (h + 1)..n : lines[i].kind # "blank"}
    IN  IF nonblank = {}
        THEN <<>>
        ELSE LET start == CHOOSE i \in nonblank : \A j \in nonblank : i <= j
                 stops == {i \in (start + 1)..n : IsSection(lines[i])}
                 stop == IF stops = {}
                         THEN n + 1
                         ELSE CHOOSE i \in stops : \A j \in stops : i <= j
             IN  SubSeq(lines, start, stop - 1)

check_tdd_enabled(file) ==
    IF ~file.exists
    THEN TRUE
    ELSE LET lines == file.lines
             heads == {i \in 1..Len(lines) : lines[i].kind = "h2_constraints"}
         IN  IF heads = {}
             THEN TRUE
             ELSE LET h == CHOOSE i \in heads : \A j \in heads : i <= j
                      section == ConstraintsSection(lines, h)
                  IN  ~(\E i \in 1..Len(section) : section[i].kind = "tdd_no")

(* ------------------------------------------------------------------ *)
(* Test manifest (tests.json) and check_tests                          *)
(* ------------------------------------------------------------------ *)

\* A key that the JSON object does not have.
MISSING == "<missing>"

\* dict.get(key, default)
Get(t, key, default) == IF t[key] = MISSING THEN default ELSE t[key]

\* Python truthiness of a JSON value: false, null, 0, "" and a missing key
\* (None) are falsy.
Truthy(v) == v \notin {"false", "null", "0", "", MISSING}

TestInfo(t) ==
    [id |-> Get(t, "id", ""),
     status |-> Get(t, "status", "pending"),
     required |-> Get(t, "required", "false"),
     red_verified |-> Truthy(t.red_verified),
     has_trajectory |-> t.trajectory # <<>>]

\* TestsStatus()
NoTests ==
    [exists |-> FALSE, total |-> 0, passed |-> 0, failed |-> 0, blocked |-> 0,
     pending |-> 0, required_passed |-> 0, required_total |-> 0,
     all_red_verified |-> FALSE, tests |-> <<>>]

\* Variant: the "blocked" branch is missing, blocked records count as pending.
StatusBucket_NoBlocked(test_status) ==
    IF test_status = "passed" THEN "passed"
    ELSE IF test_status = "failed" THEN "failed"
    ELSE "pending"

\* Variant: only "pending" counts as pending, "running" is counted nowhere.
StatusBucket_RunningApart(test_status) ==
    IF test_status = "passed" THEN "passed"
    ELSE IF test_status = "failed" THEN "failed"
    ELSE IF test_status = "blocked" THEN "blocked"
    ELSE IF test_status = "pending" THEN "pending"
    ELSE "other"

\* The bucket a record's status is counted in (the if/elif chain of the loop).
StatusBucket(test_status) ==
    IF test_status = "passed" THEN "passed"
    ELSE IF test_status = "failed" THEN "failed"
    ELSE IF test_status = "blocked" THEN "blocked"
    ELSE "pending"

\* One iteration of the loop over the records: acc is the TestsStatus so far.
CountTest(acc, t) ==
    LET test_status == Get(t, "status", "pending")
        required == Truthy(Get(t, "required", "false"))
        bucket == StatusBucket(test_status)
        inc(b) == IF bucket = b THEN 1 ELSE 0
    IN  [acc EXCEPT
            !.tests = Append(@, TestInfo(t)),
            !.passed = @ + inc("passed"),
            !.failed = @ + inc("failed"),
            !.blocked = @ + inc("blocked"),
            !.pending = @ + inc("pending"),
            !.required_passed = @ + (IF bucket = "passed" /\ required THEN 1 ELSE 0),
            !.required_total = @ + (IF required THEN 1 ELSE 0),
            !.all_red_verified = @ /\ Truthy(t.red_verified)]

RECURSIVE CountTests(_, _)
CountTests(acc, tests) ==
    IF tests = <<>>
    THEN acc
    ELSE CountTests(CountTest(acc, Head(tests)), Tail(tests))

\* Variant: the "and status.total > 0" is missing.
AllRedVerified_NoTotal(all_red_verified, total) == all_red_verified

\* status.all_red_verified = all_red_verified and status.total > 0
AllRedVerified(all_red_verified, total) == all_red_verified /\ total > 0

\* tests.json contents on which the code after json.loads raises: a top
\* level that is not an object has no .get (AttributeError), a "tests" value
\* such as a number has no len (TypeError), and an element of the array that
\* is not an object has no .get (AttributeError).  None is caught.
Raises(manifest) ==
    manifest.kind \in {"not_object", "tests_not_array", "element_not_object"}

check_tests(manifest) ==
    IF manifest.kind = "absent" THEN NoTests
    ELSE IF manifest.kind = "malformed" THEN NoTests
    ELSE LET tests == manifest.tests
             start == [NoTests EXCEPT !.exists = TRUE,
                                      !.total = Len(tests),
                                      !.all_red_verified = TRUE]
             done == CountTests(start, tests)
         IN  [done EXCEPT
                 !.all_red_verified = AllRedVerified(done.all_red_verified, done.total)]

(* ------------------------------------------------------------------ *)
(* determine_next_step                                                 *)
(* ------------------------------------------------------------------ *)

\* A (next_step, next_step_detail) pair.  The detail f-string is kept as its
\* fixed text and the list of names it joins with ', '.
Step(tag, text, items) == [next_step |-> tag, text |-> text, items |-> items]

\* No return statement was reached yet.
NoStep == Step("", "", <<>>)

\* status.docs.get(doc): DocStatus or None
DocGet(docs, doc) == IF doc \in DOMAIN docs THEN docs[doc] ELSE None

\* [t.id for t in kept]
IdsOf(kept) == [i \in 1..Len(kept) |-> kept[i].id]

\* Variant: the loop stops at the first missing document.
MissingDocs_FirstOnly(st) ==
    LET missing(doc) == doc \notin DOMAIN st.docs \/ ~st.docs[doc].exists
        all == SelectSeq(REQUIRED_DOCS, missing)
    IN  IF all = <<>> THEN <<>> ELSE <<Head(all)>>

\* missing_docs: the required documents not in status.docs or not existing.
MissingDocs(st) ==
    LET missing(doc) == doc \notin DOMAIN st.docs \/ ~st.docs[doc].exists
    IN  SelectSeq(REQUIRED_DOCS, missing)

\* Ticket directory and required documents.
DocRules(st) ==
    IF ~st.exists
    THEN Step("missing-docs", "Ticket directory not found", <<st.ticket_id>>)
    ELSE IF MissingDocs(st) # <<>>
    THEN Step("missing-docs", "Missing: ", MissingDocs(st))
    ELSE NoStep

\* Variant: the rule does not look at the gate.
SpecRule_Ungated(st) ==
    LET spec_status == DocGet(st.docs, "3-spec.md")
    IN  IF spec_status # None /\ ~spec_status.has_content
        THEN Step("needs-spec", "3-spec.md exists but needs test specification", <<>>)
        ELSE NoStep

\* 3-spec.md has content (for TDD tickets).
SpecRule(st) ==
    LET spec_status == DocGet(st.docs, "3-spec.md")
    IN  IF st.tdd_enabled /\ spec_status # None /\ ~spec_status.has_content
        THEN Step("needs-spec", "3-spec.md exists but needs test specification", <<>>)
        ELSE NoStep

\* Variant: the BLOCKED return is missing.
FinalStatusRules_CompleteOnly(st) ==
    IF st.final_status = COMPLETE
    THEN Step("complete", "Ticket marked COMPLETE in 5-final.md", <<>>)
    ELSE NoStep

\* Final status (might be manually marked).
FinalStatusRules(st) ==
    IF st.final_status = COMPLETE
    THEN Step("complete", "Ticket marked COMPLETE in 5-final.md", <<>>)
    ELSE IF st.final_status = BLOCKED
    THEN Step("blocked", "Ticket marked BLOCKED in 5-final.md", <<>>)
    ELSE NoStep

\* Variant: the test rules do not look at the gate.
TddGate_Always(st) == TRUE

\* if status.tdd_enabled:
TddGate(st) == st.tdd_enabled

\* Variant: <= for <.
RequiredShort_Le(tests) == tests.required_passed <= tests.required_total

\* status.tests.required_passed < status.tests.required_total
RequiredShort(tests) == tests.required_passed < tests.required_total

\* For TDD tickets, check tests.
TestRules(st) ==
    LET tests == st.tests
        is_blocked(t) == t.status = "blocked"
        unverified(t) == ~t.red_verified
        is_failed(t) == t.status = "failed"
        is_pending(t) == t.status = "pending"
    IN  IF ~TddGate(st) THEN NoStep
        ELSE IF ~tests.exists
        THEN Step("needs-tests", "No tests.json found - create test definitions", <<>>)
        ELSE IF tests.total = 0
        THEN Step("needs-tests", "tests.json exists but has no tests defined", <<>>)
        ELSE IF tests.blocked > 0
        THEN Step("tests-blocked", "Blocked tests: ", IdsOf(SelectSeq(tests.tests, is_blocked)))
        ELSE IF ~tests.all_red_verified
        THEN Step("red-phase", "Run RED phase for: ", IdsOf(SelectSeq(tests.tests, unverified)))
        ELSE IF tests.failed > 0
        THEN Step("tests-failing", "Failing tests: ", IdsOf(SelectSeq(tests.tests, is_failed)))
        ELSE IF tests.pending > 0
        THEN Step("needs-impl", "Implement to pass: ", IdsOf(SelectSeq(tests.tests, is_pending)))
        ELSE IF RequiredShort(tests)
        THEN Step("needs-impl", "Required tests: / passed",
                  <<ToString(tests.required_passed), ToString(tests.required_total)>>)
        ELSE NoStep

\* All tests pass (or TDD disabled), check for 5-final.md.
FinalDocRules(st) ==
    LET final_status == DocGet(st.docs, FINAL_DOC)
    IN  IF final_status = None \/ ~final_status.exists
        THEN Step("needs-final", "Tests pass - create 5-final.md with Status: COMPLETE", <<>>)
        ELSE IF ~final_status.has_content
        THEN Step("needs-final", "5-final.md exists but needs Status: COMPLETE", <<>>)
        ELSE IF st.final_status = None
        THEN Step("needs-final", "5-final.md missing Status: COMPLETE or BLOCKED", <<>>)
        ELSE Step("complete", "All requirements met", <<>>)

\* Variant: the test rules come before the final-status rules.
determine_next_step_TestsFirst(st) ==
    IF DocRules(st) # NoStep THEN DocRules(st)
    ELSE IF SpecRule(st) # NoStep THEN SpecRule(st)
    ELSE IF TestRules(st) # NoStep THEN TestRules(st)
    ELSE IF FinalStatusRules(st) # NoStep THEN FinalStatusRules(st)
    ELSE FinalDocRules(st)

\* The rules in the order of the function's return statements.
determine_next_step(st) ==
    IF DocRules(st) # NoStep THEN DocRules(st)
    ELSE IF SpecRule(st) # NoStep THEN SpecRule(st)
    ELSE IF FinalStatusRules(st) # NoStep THEN FinalStatusRules(st)
    ELSE IF TestRules(st) # NoStep THEN TestRules(st)
    ELSE FinalDocRules(st)

(* ------------------------------------------------------------------ *)
(* check_ticket                                                        *)
(* ------------------------------------------------------------------ *)

AllDocs == REQUIRED_DOCS \o <<PROGRESS_DOC, FINAL_DOC>>

DocNames == {AllDocs[i] : i \in 1..Len(AllDocs)}

\* TicketStatus(ticket_id=ticket_id)
NewTicketStatus ==
    [ticket_id |-> ticket_id, exists |-> FALSE, docs |-> <<>>,
     final_status |-> None, tests |-> NoTests, next_step |-> "missing-docs",
     next_step_detail |-> [text |-> "", items |-> <<>>], tdd_enabled |-> TRUE]

WithNextStep(st) ==
    LET step == determine_next_step(st)
    IN  [st EXCEPT !.next_step = step.next_step,
                   !.next_step_detail = [text |-> step.text, items |-> step.items]]

check_ticket(f) ==
    IF ~f.dir
    THEN WithNextStep(NewTicketStatus)
    ELSE WithNextStep(
            [NewTicketStatus EXCEPT
                !.exists = TRUE,
                !.tdd_enabled = check_tdd_enabled(f.files["1-definition.md"]),
                !.docs = [doc \in DocNames |-> check_doc(f.files[doc])],
                !.final_status = parse_final_status(f.files[FINAL_DOC]),
                !.tests = check_tests(f.manifest)])

(* ------------------------------------------------------------------ *)
(* check_tests.py: strings                                             *)
(* ------------------------------------------------------------------ *)

\* The characters of a JSON string of the manifest.  Any other string used
\* here is a single character.
Chars(s) ==
    CASE s = "" -> <<>>
      [] s = "Test A" -> <<"T", "e", "s", "t", " ", "A">>
      [] s = "TEST_B" -> <<"T", "E", "S", "T", "_", "B">>
      [] OTHER -> <<s>>

\* str.lower(): on the characters used here it is the regex's case folding.
LowerStr(w) == FoldStr(w)

\* str.replace(' ', '_')
Replace(w) == [i \in 1..Len(w) |-> IF w[i] = " " THEN "_" ELSE w[i]]

\* a in b, for strings
IsSubstr(a, b) ==
    \E i \in 0..(Len(b) - Len(a)) : SubSeq(b, i + 1, i + Len(a)) = a

\* b.startswith(a)
StartsWith(b, a) == Len(a) <= Len(b) /\ SubSeq(b, 1, Len(a)) = a

(* ------------------------------------------------------------------ *)
(* check_tests.py: parse_spec_cases                                    *)
(* ------------------------------------------------------------------ *)

TEST_ == <<"t", "e", "s", "t", "_">>

\* header_words
header_words ==
    {<<"n", "a", "m", "e">>, <<"t", "e", "s", "t">>,
     <<"i", "n", "p", "u", "t">>, <<"e", "x", "p", "e", "c", "t", "e", "d">>,
     <<"f", "i", "l", "e">>, <<"s", "e", "t", "u", "p">>,
     <<"a", "c", "t", "i", "o", "n">>, <<"v", "e", "r", "i", "f", "y">>,
     <<"-", "-", "-">>}

\* The words of a sequence of lines.
RECURSIVE Words(_)
Words(lines) ==
    IF lines = <<>> THEN <<>> ELSE <<Head(lines).word>> \o Words(Tail(lines))

\* h.strip().lower().replace(' ', '_') of every header capture
RECURSIVE Cleaned(_)
Cleaned(ws) ==
    IF ws = <<>>
    THEN <<>>
    ELSE <<Replace(LowerStr(Head(ws)))>> \o Cleaned(Tail(ws))

\* The deduplication loop: cases still to visit, names kept so far.
RECURSIVE Unique(_, _)
Unique(cases, unique) ==
    IF cases = <<>>
    THEN unique
    ELSE LET c == Head(cases)
             c_lower == LowerStr(c)
             seen == {LowerStr(unique[i]) : i \in 1..Len(unique)}
             keep == /\ c_lower # <<>>
                     /\ c_lower \notin seen
                     /\ c_lower \notin header_words
                     /\ ~StartsWith(c_lower, <<"-", "-", "-">>)
         IN  Unique(Tail(cases), IF keep THEN Append(unique, c) ELSE unique)

\* A "row" line is "| word | ...", a "bullet" line is "- word ..." and an
\* "h3_test" line is "### word" followed by a line that does not start
\* with a letter, a digit or an underscore.
parse_spec_cases(file) ==
    IF ~file.exists
    THEN <<>>
    ELSE LET IsRow(l) == l.kind = "row"
             IsBullet(l) == /\ l.kind = "bullet"
                            /\ StartsWith(LowerStr(l.word), TEST_)
                            /\ Len(l.word) > Len(TEST_)
             IsHeader(l) == l.kind = "h3_test"
             IsTestName(h) ==
                 \/ IsSubstr(<<"t", "e", "s", "t">>, h)
                 \/ StartsWith(h, <<"u", "n", "i", "t">>)
                 \/ StartsWith(h, <<"i", "n", "t", "e", "g", "r", "a", "t",
                                    "i", "o", "n">>)
                 \/ StartsWith(h, <<"e", "2", "e">>)
             table_matches == Words(SelectSeq(file.lines, IsRow))
             bullet_matches == Words(SelectSeq(file.lines, IsBullet))
             header_matches == Words(SelectSeq(file.lines, IsHeader))
             headers == SelectSeq(Cleaned(header_matches), IsTestName)
         IN  Unique(table_matches \o bullet_matches \o headers, <<>>)

(* ------------------------------------------------------------------ *)
(* check_tests.py: check_tests                                         *)
(* ------------------------------------------------------------------ *)

\* SpecCase.test_id of a case that no record covers.
NoTestId == "None"

SpecCase(name) == [name |-> name, covered |-> FALSE, test_id |-> NoTestId]

RECURSIVE SpecCases(_)
SpecCases(names) ==
    IF names = <<>>
    THEN <<>>
    ELSE <<SpecCase(Head(names))>> \o SpecCases(Tail(names))

\* coverage_pct is a float: kept as the exact fraction num / den.
Pct(covered, declared) == [num |-> covered * 100, den |-> declared]

ZeroPct == [num |-> 0, den |-> 1]

\* An entry of status.issues: f"{id}: {text}", or the text alone.
Issue(id, text) == [id |-> id, text |-> text]

\* TestsCheckStatus(ticket_id=ticket_id)
NewTestsCheckStatus ==
    [ticket_id |-> ticket_id, tests_json_exists |-> FALSE,
     spec_exists |-> FALSE, total_tests |-> 0, tests |-> <<>>,
     spec_cases |-> <<>>, coverage_pct |-> ZeroPct,
     all_red_verified |-> FALSE, all_trajectories_complete |-> FALSE,
     issues |-> <<>>, valid |-> FALSE,
     next_step |-> [text |-> "", items |-> <<>>]]

\* "[RED]" in " ".join(str(x) for x in trajectory): an entry of a
\* trajectory is the marker it carries, or a note without marker.
HasMarker(trajectory, marker) ==
    \E i \in 1..Len(trajectory) : trajectory[i] = marker

\* TestDetail(...) before the checks
TestDetail(t) ==
    [id |-> Get(t, "id", ""),
     name |-> Get(t, "name", ""),
     status |-> Get(t, "status", "pending"),
     required |-> Get(t, "required", "false"),
     red_verified |-> Truthy(t.red_verified),
     has_trajectory |-> Len(t.trajectory) > 0,
     trajectory_count |-> Len(t.trajectory),
     has_red_marker |-> HasMarker(t.trajectory, "[RED]"),
     has_green_marker |-> HasMarker(t.trajectory, "[GREEN]"),
     issues |-> <<>>]

When(cond, text) == IF cond THEN <<text>> ELSE <<>>

\* Variant: the marker checks do not look at has_trajectory.
MarkerIssues_Unguarded(d) ==
    When(~d.has_red_marker, "Trajectory missing [RED] marker")
        \o When(~d.has_green_marker, "Trajectory missing [GREEN] marker")

\* The two marker checks of a passed record.
MarkerIssues(d) ==
    When(~d.has_red_marker /\ d.has_trajectory,
         "Trajectory missing [RED] marker")
        \o When(~d.has_green_marker /\ d.has_trajectory,
                "Trajectory missing [GREEN] marker")

\* detail.issues after the checks
DetailIssues(d) ==
    IF d.status # "passed"
    THEN <<>>
    ELSE When(~d.has_trajectory, "Passed but no trajectory recorded")
            \o When(~d.red_verified, "Passed but RED phase not verified")
            \o MarkerIssues(d)

\* what the checks of one record append to status.issues
ManifestIssues(d) ==
    IF d.status # "passed"
    THEN <<>>
    ELSE When(~d.has_trajectory, Issue(d.id, "passed without trajectory"))
            \o When(~d.red_verified, Issue(d.id, "missing red_verified"))

\* The coverage test of one spec case against one record.
Covers(sc, d) ==
    LET test_name_lower == Replace(LowerStr(Chars(d.name)))
        test_id_lower == LowerStr(Chars(d.id))
        sc_lower == LowerStr(sc.name)
    IN  \/ IsSubstr(sc_lower, test_name_lower)
        \/ IsSubstr(sc_lower, test_id_lower)
        \/ IsSubstr(test_name_lower, sc_lower)

\* Variant: the loop assigns the outcome of the test to sc.covered, so a
\* later record that does not match clears the flag.
RECURSIVE CoverCases_Overwrite(_, _)
CoverCases_Overwrite(spec_cases, d) ==
    IF spec_cases = <<>>
    THEN <<>>
    ELSE LET sc == Head(spec_cases)
         IN  <<[sc EXCEPT !.covered = Covers(sc, d), !.test_id = d.id]>>
                 \o CoverCases_Overwrite(Tail(spec_cases), d)

\* The inner loop over status.spec_cases for one record.
RECURSIVE CoverCases(_, _)
CoverCases(spec_cases, d) ==
    IF spec_cases = <<>>
    THEN <<>>
    ELSE LET sc == Head(spec_cases)
         IN  <<IF Covers(sc, d)
               THEN [sc EXCEPT !.covered = TRUE, !.test_id = d.id]
               ELSE sc>> \o CoverCases(Tail(spec_cases), d)

\* One iteration of the loop over the records.  all_red_verified and
\* all_trajectories_complete hold the locals all_red and all_trajectory.
CheckTest(acc, t) ==
    LET d0 == TestDetail(t)
        detail == [d0 EXCEPT !.issues = DetailIssues(d0)]
    IN  [acc EXCEPT
            !.issues = @ \o ManifestIssues(d0),
            !.all_red_verified = @ /\ detail.red_verified,
            !.all_trajectories_complete =
                @ /\ ~(detail.status = "passed" /\ ~detail.has_trajectory),
            !.tests = Append(@, detail),
            !.spec_cases = CoverCases(@, detail)]

RECURSIVE CheckTestLoop(_, _)
CheckTestLoop(acc, tests) ==
    IF tests = <<>>
    THEN acc
    ELSE CheckTestLoop(CheckTest(acc, Head(tests)), Tail(tests))

\* The number of covered spec cases.
RECURSIVE Covered(_)
Covered(spec_cases) ==
    IF spec_cases = <<>>
    THEN 0
    ELSE (IF Head(spec_cases).covered THEN 1 ELSE 0) + Covered(Tail(spec_cases))

\* "Calculate coverage"
CoveragePct(st) ==
    IF st.spec_cases # <<>>
    THEN Pct(Covered(st.spec_cases), Len(st.spec_cases))
    ELSE st.coverage_pct

TestsStep(text, items) == [text |-> text, items |-> items]

\* status.valid
Valid(st) == st.issues = <<>>

\* "Determine overall status": the next_step of the manifest.
TestsNextStep(st) ==
    LET IsPending(t) == t.status = "pending"
        IsFailed(t) == t.status = "failed"
        IsBlocked(t) == t.status = "blocked"
        IsUnverified(t) == t.status = "pending" /\ ~t.red_verified
        pending == SelectSeq(st.tests, IsPending)
        failed == SelectSeq(st.tests, IsFailed)
        blocked == SelectSeq(st.tests, IsBlocked)
    IN  IF st.issues # <<>>
        THEN IF ~st.all_red_verified
             THEN TestsStep("Run RED phase for tests missing red_verified", <<>>)
             ELSE IF ~st.all_trajectories_complete
             THEN TestsStep("Re-run tests and record trajectory", <<>>)
             ELSE TestsStep("Fix issues listed above", <<>>)
        ELSE IF blocked # <<>>
             THEN TestsStep("Resolve blocked tests: ", IdsOf(blocked))
             ELSE IF failed # <<>>
             THEN TestsStep("Fix failing tests: ", IdsOf(failed))
             ELSE IF pending # <<>>
             THEN IF ~st.all_red_verified
                  THEN TestsStep("Run RED phase: ",
                                 IdsOf(SelectSeq(st.tests, IsUnverified)))
                  ELSE TestsStep("Implement to pass: ", IdsOf(pending))
             ELSE TestsStep("All tests passed with valid trajectory", <<>>)

\* check_tests(ticket_id, docs_path) of check_tests.py
check_tests_py(f) ==
    LET spec == f.files["3-spec.md"]
        s0 == IF spec.exists
              THEN [NewTestsCheckStatus EXCEPT
                       !.spec_exists = TRUE,
                       !.spec_cases = SpecCases(parse_spec_cases(spec))]
              ELSE NewTestsCheckStatus
    IN  IF f.manifest.kind = "absent"
        THEN [s0 EXCEPT
                 !.issues = <<Issue("", "tests.json not found")>>,
                 !.next_step = TestsStep("Create tests.json from 3-spec.md", <<>>)]
        ELSE IF f.manifest.kind = "malformed"
        THEN [s0 EXCEPT
                 !.tests_json_exists = TRUE,
                 !.issues = <<Issue("", "Failed to parse tests.json: <e>")>>,
                 !.next_step = TestsStep("Fix tests.json syntax", <<>>)]
        ELSE IF Len(f.manifest.tests) = 0
        THEN [s0 EXCEPT
                 !.tests_json_exists = TRUE,
                 !.issues = <<Issue("", "tests.json has no tests defined")>>,
                 !.next_step = TestsStep("Add test definitions to tests.json",
                                         <<>>)]
        ELSE LET s1 == [s0 EXCEPT !.tests_json_exists = TRUE,
                                  !.total_tests = Len(f.manifest.tests),
                                  !.all_red_verified = TRUE,
                                  !.all_trajectories_complete = TRUE]
                 s2 == CheckTestLoop(s1, f.manifest.tests)
                 s3 == [s2 EXCEPT !.coverage_pct = CoveragePct(s2)]
             IN  [s3 EXCEPT !.valid = Valid(s3), !.next_step = TestsNextStep(s3)]

\* sys.exit(0 if status.valid and not status.issues else 1)
tests_main_exit(st) == IF st.valid /\ st.issues = <<>> THEN 0 ELSE 1

\* sys.exit of main for the classification that check_ticket returned.
main_exit(next_step) ==
    IF next_step = "complete" THEN 0
    ELSE IF next_step = "blocked" THEN 2
    ELSE 1

\* Exit status of a Python process that ends with an uncaught exception.
UncaughtExit == 1

\* Exit status not set: the process has not ended.
Running == -1

(* ------------------------------------------------------------------ *)
(* The artifacts a run can find                                        *)
(* ------------------------------------------------------------------ *)

\* 1-definition.md: absent; no Constraints section; an opt-out inside the
\* Constraints section.
DefinitionFiles ==
    {Absent,
     File(<<Line("h1"), Line("prose")>>),
     File(<<Line("h1"), Line("h2_constraints"), Line("tdd_no")>>)}

PlanFiles == {Absent, File(<<Line("h1"), Line("prose")>>)}

\* 3-spec.md: absent; an unedited template stub; a written specification.
SpecFiles == {Absent, File(<<Line("stub"), Line("blank")>>), File(<<Line("prose")>>)}

\* "Status: BLOC<U+212A>ED"
BLOCKED_KELVIN == <<"B", "L", "O", "C", KELVIN, "E", "D">>

\* 5-final.md: absent; empty; prose without a status; a bare status line;
\* prose with a status in lower case, in upper case, with a Kelvin sign, and
\* with a COMPLETE line followed by a BLOCKED line.
FinalFiles ==
    {Absent,
     File(<<>>),
     File(<<Line("prose")>>),
     File(<<StatusLine(COMPLETE)>>),
     File(<<Line("prose"), StatusLine(<<"c", "o", "m", "p", "l", "e", "t", "e">>)>>),
     File(<<Line("prose"), StatusLine(BLOCKED)>>),
     File(<<Line("prose"), StatusLine(BLOCKED_KELVIN)>>),
     File(<<Line("prose"), StatusLine(COMPLETE), StatusLine(BLOCKED)>>)}

\* The fields of one record of tests.json (its id is its position).
TestFields ==
    [status : {"pending", "running", "passed", "failed", "blocked"},
     required : {"true", "false"},
     red_verified : {"true", "false"}]

TestRecord(i, f) ==
    [id |-> ToString(i), name |-> MISSING, status |-> f.status,
     required |-> f.required, red_verified |-> f.red_verified,
     trajectory |-> <<>>]

TestLists ==
    UNION {{[i \in 1..n |-> TestRecord(i, fields[i])] : fields \in [1..n -> TestFields]}
           : n \in 0..MaxTests}

\* tests.json: absent, unparsable, or an object with a "tests" array.
NoManifest == [kind |-> "absent", tests |-> <<>>]

Malformed == [kind |-> "malformed", tests |-> <<>>]

Manifest(tests) == [kind |-> "object", tests |-> tests]

\* Valid JSON of another shape: [], {"tests": 5}, {"tests": ["x"]}.
OddManifests ==
    {[kind |-> k, tests |-> <<>>] :
        k \in {"not_object", "tests_not_array", "element_not_object"}}

Manifests ==
    {NoManifest, Malformed} \cup OddManifests
        \cup {Manifest(tests) : tests \in TestLists}

\* Without the ticket directory none of its documents exists.
NoFiles == [doc \in DocNames |-> Absent]

\* tickets/archive/<id>: no such directory, hence no files.
NoArchive == [exists |-> FALSE, files |-> <<>>]

FileSets ==
    {[doc \in DocNames |->
        CASE doc = "1-definition.md" -> d
          [] doc = "2-plan.md" -> p
          [] doc = "3-spec.md" -> s
          [] doc = FINAL_DOC -> f
          [] OTHER -> Absent]
     : d \in DefinitionFiles, p \in PlanFiles, s \in SpecFiles, f \in FinalFiles}

(* ------------------------------------------------------------------ *)
(* Specification: one run of check_ticket over any artifacts           *)
(* ------------------------------------------------------------------ *)

\* check_tests.py has not been started.
TestsIdle ==
    /\ tests_status = NewTestsCheckStatus
    /\ tests_pc = "idle"
    /\ tests_exit = Running

\* No writer is at work, and the other tools have not been started.
OthersIdle ==
    /\ writes_left = 0
    /\ snapshots = {}
    /\ phase_status = None
    /\ phase_exit = Running
    /\ integrity_status = None
    /\ integrity_exit = Running
    /\ result = None
    /\ validate_exit = Running

Init ==
    /\ \/ \E m \in Manifests :
             fs = [dir |-> FALSE, files |-> NoFiles, manifest |-> m,
                   archive |-> NoArchive]
       \/ \E fl \in FileSets, m \in Manifests :
             fs = [dir |-> TRUE, files |-> fl, manifest |-> m,
                   archive |-> NoArchive]
    /\ status = NewTicketStatus
    /\ pc = "start"
    /\ exit_code = Running
    /\ TestsIdle
    /\ OthersIdle

\* main of check_ticket.py: check_ticket(ticket_id, docs_path), then sys.exit.
\* An exception of check_tests leaves through main: no status is returned.
CheckTicket ==
    /\ pc = "start"
    /\ IF fs.dir /\ Raises(fs.manifest)
       THEN /\ pc' = "raised"
            /\ exit_code' = UncaughtExit
            /\ UNCHANGED status
       ELSE /\ status' = check_ticket(fs)
            /\ pc' = "done"
            /\ exit_code' = main_exit(status'.next_step)
    /\ UNCHANGED <<fs, tests_status, tests_pc, tests_exit, writer, others>>

Next == CheckTicket

Spec == Init /\ [][Next]_vars

\* main of check_tests.py: check_tests(ticket_id, docs_path), then sys.exit.
CheckTests ==
    /\ tests_pc = "start"
    /\ IF Raises(fs.manifest)
       THEN /\ tests_pc' = "raised"
            /\ tests_exit' = UncaughtExit
            /\ UNCHANGED tests_status
       ELSE /\ tests_status' = check_tests_py(fs)
            /\ tests_pc' = "done"
            /\ tests_exit' = tests_main_exit(tests_status')
    /\ UNCHANGED <<fs, status, pc, exit_code, writer, others>>

(* ------------------------------------------------------------------ *)
(* Specification: check_ticket.py and check_tests.py over manifests    *)
(* whose records have trajectories                                     *)
(* ------------------------------------------------------------------ *)

Trajectories ==
    {<<>>, <<"note">>, <<"[RED]">>, <<"[GREEN]">>, <<"[RED]", "[GREEN]">>}

TrajFields ==
    [status : {"pending", "running", "passed", "failed", "blocked"},
     red_verified : {"true", "false"},
     trajectory : Trajectories]

TrajRecord(i, f) ==
    [id |-> ToString(i), name |-> MISSING, status |-> f.status,
     required |-> "true", red_verified |-> f.red_verified,
     trajectory |-> f.trajectory]

\* The manifest with the records of the given fields.
TrajManifest(n, fields) == Manifest([i \in 1..n |-> TrajRecord(i, fields[i])])

\* A ticket whose three required documents are written.
WrittenFiles ==
    [doc \in DocNames |->
        CASE doc = "1-definition.md" -> File(<<Line("h1"), Line("prose")>>)
          [] doc = "2-plan.md" -> File(<<Line("h1"), Line("prose")>>)
          [] doc = "3-spec.md" ->
                File(<<Line("prose"), [kind |-> "bullet", word |-> TEST_ \o <<"a">>]>>)
          [] OTHER -> Absent]

InitTests ==
    /\ \/ \E m \in {NoManifest, Malformed} \cup OddManifests :
             fs = [dir |-> TRUE, files |-> WrittenFiles, manifest |-> m,
                   archive |-> NoArchive]
       \/ \E n \in 0..MaxTests : \E fields \in [1..n -> TrajFields] :
             fs = [dir |-> TRUE, files |-> WrittenFiles,
                   manifest |-> TrajManifest(n, fields), archive |-> NoArchive]
    /\ status = NewTicketStatus
    /\ pc = "start"
    /\ exit_code = Running
    /\ tests_status = NewTestsCheckStatus
    /\ tests_pc = "start"
    /\ tests_exit = Running
    /\ OthersIdle

NextTests == CheckTicket \/ CheckTests

SpecTests == InitTests /\ [][NextTests]_vars

(* ------------------------------------------------------------------ *)
(* Specification: check_ticket.py over definition documents drawn line *)
(* by line                                                             *)
(* ------------------------------------------------------------------ *)

\* "## Constraints", "## Notes", "### Details", "- TDD: no", text, "".
GateLines ==
    {Line(k) : k \in {"h2_constraints", "h2_other", "h3_sub", "tdd_no",
                      "prose", "blank"}}

GateDocs ==
    {Absent} \cup UNION {{File(lines) : lines \in [1..n -> GateLines]}
                         : n \in 0..MaxLines}

InitGate ==
    /\ \E d \in GateDocs :
          fs = [dir |-> TRUE,
                files |-> [WrittenFiles EXCEPT !["1-definition.md"] = d],
                manifest |-> NoManifest, archive |-> NoArchive]
    /\ status = NewTicketStatus
    /\ pc = "start"
    /\ exit_code = Running
    /\ TestsIdle
    /\ OthersIdle

NextGate == CheckTicket

SpecGate == InitGate /\ [][NextGate]_vars

(* ------------------------------------------------------------------ *)
(* Specification: check_ticket.py over specification documents drawn   *)
(* line by line                                                        *)
(* ------------------------------------------------------------------ *)

\* Lines of 12, 14, 9 and 0 characters.
SpecLines == {Line(k) : k \in {"stub", "h1", "tdd_no", "blank"}}

SpecTexts ==
    {Absent} \cup UNION {{File(lines) : lines \in [1..n -> SpecLines]}
                         : n \in 0..MaxLines}

FinalWords ==
    {Absent,
     File(<<Line("prose"), StatusLine(COMPLETE)>>),
     File(<<Line("prose"), StatusLine(BLOCKED)>>)}

PassedManifest ==
    Manifest(<<TestRecord(1, [status |-> "passed", required |-> "true",
                              red_verified |-> "true"])>>)

InitDocs ==
    /\ \/ fs = [dir |-> FALSE, files |-> NoFiles, manifest |-> NoManifest,
                archive |-> NoArchive]
       \/ \E d \in DefinitionFiles, p \in PlanFiles, t \in SpecTexts,
             f \in FinalWords, m \in {NoManifest, PassedManifest} :
             fs = [dir |-> TRUE,
                   files |-> [NoFiles EXCEPT !["1-definition.md"] = d,
                                             !["2-plan.md"] = p,
                                             !["3-spec.md"] = t,
                                             ![FINAL_DOC] = f],
                   manifest |-> m, archive |-> NoArchive]
    /\ status = NewTicketStatus
    /\ pc = "start"
    /\ exit_code = Running
    /\ TestsIdle
    /\ OthersIdle

NextDocs == CheckTicket

SpecDocs == InitDocs /\ [][NextDocs]_vars

(* ------------------------------------------------------------------ *)
(* Specification: check_ticket.py over active and archived tickets     *)
(* ------------------------------------------------------------------ *)

\* The documents of a ticket directory, active or archived.
TicketDirs ==
    {[NoFiles EXCEPT !["1-definition.md"] = File(<<Line("h1"), Line("prose")>>),
                     !["2-plan.md"] = p,
                     !["3-spec.md"] = t,
                     ![FINAL_DOC] = f]
     : p \in PlanFiles, t \in SpecFiles, f \in FinalWords}

Archives == {NoArchive} \cup {[exists |-> TRUE, files |-> fl] : fl \in TicketDirs}

InitArchive ==
    /\ \E a \in Archives, m \in {NoManifest, PassedManifest} :
          \/ fs = [dir |-> FALSE, files |-> NoFiles, manifest |-> m,
                   archive |-> a]
          \/ \E fl \in TicketDirs :
                fs = [dir |-> TRUE, files |-> fl, manifest |-> m, archive |-> a]
    /\ status = NewTicketStatus
    /\ pc = "start"
    /\ exit_code = Running
    /\ TestsIdle
    /\ OthersIdle

NextArchive == CheckTicket

SpecArchive == InitArchive /\ [][NextArchive]_vars

(* ------------------------------------------------------------------ *)
(* Specification: check_tests.py over declared test cases and named    *)
(* records                                                             *)
(* ------------------------------------------------------------------ *)

\* "- test_a", "- test_b", "| name | input |", "### Test A".
CaseLines ==
    {[kind |-> "bullet", word |-> TEST_ \o <<"a">>],
     [kind |-> "bullet", word |-> TEST_ \o <<"b">>],
     [kind |-> "row", word |-> <<"n", "a", "m", "e">>],
     [kind |-> "h3_test", word |-> <<"T", "e", "s", "t", " ", "A">>]}

CaseFiles ==
    {Absent} \cup UNION {{File(lines) : lines \in [1..n -> CaseLines]}
                         : n \in 0..MaxCases}

\* A record without name, and records named "Test A" and "b".
RecordNames == {MISSING, "Test A", "b"}

\* The fields that vary in a named record: its id is its position or
\* "TEST_B".
NameFields == [own_id : BOOLEAN, name : RecordNames]

NamedRecord(i, f) ==
    [id |-> IF f.own_id THEN "TEST_B" ELSE ToString(i), name |-> f.name,
     status |-> "pending", required |-> "true", red_verified |-> "true",
     trajectory |-> <<>>]

\* The records that can stand at position i.
NamedRecords(i) == {NamedRecord(i, f) : f \in NameFields}

NamedManifest(n, fields) == Manifest([i \in 1..n |-> NamedRecord(i, fields[i])])

InitCoverage ==
    /\ \E c \in CaseFiles :
          \/ \E m \in {NoManifest, Malformed} \cup OddManifests :
                fs = [dir |-> TRUE,
                      files |-> [WrittenFiles EXCEPT !["3-spec.md"] = c],
                      manifest |-> m, archive |-> NoArchive]
          \/ \E n \in 0..MaxTests : \E fields \in [1..n -> NameFields] :
                fs = [dir |-> TRUE,
                      files |-> [WrittenFiles EXCEPT !["3-spec.md"] = c],
                      manifest |-> NamedManifest(n, fields),
                      archive |-> NoArchive]
    /\ status = NewTicketStatus
    /\ pc = "idle"
    /\ exit_code = Running
    /\ tests_status = NewTestsCheckStatus
    /\ tests_pc = "start"
    /\ tests_exit = Running
    /\ OthersIdle

NextCoverage == CheckTests

SpecCoverage == InitCoverage /\ [][NextCoverage]_vars

(* ------------------------------------------------------------------ *)
(* Properties                                                          *)
(* ------------------------------------------------------------------ *)

\* The run has returned: status is the TicketStatus it returned.
Done == pc = "done"

\* check_tests.py has returned: tests_status is its TestsCheckStatus.
TestsDone == tests_pc = "done"

\* The records of tests.json as written in the file.
Recs == fs.manifest.tests

Idx == 1..Len(Recs)

\* The records whose field has the value.
With(field, value) == {i \in Idx : Recs[i][field] = value}

BlockedRecs == With("status", "blocked")

FailedRecs == With("status", "failed")

PendingRecs == With("status", "pending")

RunningRecs == With("status", "running")

PassedRecs == With("status", "passed")

RequiredRecs == With("required", "true")

VerifiedRecs == With("red_verified", "true")

UnverifiedRecs == Idx \ VerifiedRecs

\* The required documents that are absent from the ticket directory.
AbsentRequired == {d \in DocNames : \E i \in 1..Len(REQUIRED_DOCS) :
                       REQUIRED_DOCS[i] = d /\ ~fs.files[d].exists}

\* The ticket directory and the three required documents exist.
RequiredExist == fs.dir /\ AbsentRequired = {}

\* Required documents present with content.
Ready == Done /\ RequiredExist /\ status.docs["3-spec.md"].has_content

GateOn == status.tdd_enabled

\* No final disposition was parsed.
Undisposed == status.final_status = None

\* The closing document has a line "Status: <word>".
FinalSays(word) ==
    \E i \in 1..Len(fs.files[FINAL_DOC].lines) :
        fs.files[FINAL_DOC].lines[i] = StatusLine(word)

\* The word of the first "Status:" line of the closing document, if any.
FirstToken ==
    LET lines == fs.files[FINAL_DOC].lines
        hits == {i \in 1..Len(lines) : lines[i].kind = "status"}
    IN  IF hits = {}
        THEN None
        ELSE lines[CHOOSE i \in hits : \A j \in hits : i <= j].word

Items == {status.next_step_detail.items[i] :
            i \in 1..Len(status.next_step_detail.items)}

(* ----------------------------- C1 ---------------------------------- *)

\* C1 as stated: whenever the final disposition parses as COMPLETE the
\* classification is 'complete', whatever the other input facts are.
C1_CompleteWhateverElse ==
    (Done /\ status.final_status = COMPLETE) => status.next_step = "complete"

\* C1, amended: when the final disposition parses as COMPLETE, the required
\* documents all exist and the needs-spec rule does not apply (gate disabled
\* or 3-spec.md has content), the classification is 'complete' regardless of
\* any failing, pending or blocked test records.
C1_CompleteOverridesTests ==
    (Done /\ status.final_status = COMPLETE /\ RequiredExist
        /\ (~GateOn \/ status.docs["3-spec.md"].has_content))
    => /\ status.next_step = "complete"
       /\ status.next_step_detail.text = "Ticket marked COMPLETE in 5-final.md"

C1_Witness ==
    /\ Done /\ status.final_status = COMPLETE /\ GateOn
    /\ BlockedRecs # {} /\ FailedRecs # {}
    /\ status.next_step = "complete"

(* ----------------------------- C2 ---------------------------------- *)

\* C2 as stated: for every ticket in which a required document is absent
\* (an absent ticket directory included) the classification is
\* 'missing-docs' and the detail names exactly the absent documents.
C2_MissingDocsNamedAlways ==
    (Done /\ AbsentRequired # {})
    => /\ status.next_step = "missing-docs"
       /\ Items = AbsentRequired

\* C2, amended: for every ticket whose directory exists and in which a
\* required document is absent, the classification is 'missing-docs' and the
\* detail names exactly the absent required documents, each once, whatever
\* the final disposition, gate setting and manifest are; for an absent
\* directory the classification is 'missing-docs' and the detail names the
\* ticket directory.
C2_MissingDocsNamed ==
    /\ (Done /\ fs.dir /\ AbsentRequired # {})
        => /\ status.next_step = "missing-docs"
           /\ status.next_step_detail.text = "Missing: "
           /\ Items = AbsentRequired
           /\ Len(status.next_step_detail.items) = Cardinality(AbsentRequired)
    /\ (Done /\ ~fs.dir)
        => /\ status.next_step = "missing-docs"
           /\ status.next_step_detail.text = "Ticket directory not found"
           /\ Items = {ticket_id}

C2_Witness ==
    /\ Done /\ fs.dir /\ Cardinality(AbsentRequired) = 2
    /\ FinalSays(COMPLETE) /\ ~GateOn /\ FailedRecs # {}
    /\ status.next_step = "missing-docs"

(* ----------------------------- C3 ---------------------------------- *)

\* The closing document carries an explicit "Status: COMPLETE" token (in any
\* letter case).
ExplicitComplete ==
    \E i \in 1..Len(fs.files[FINAL_DOC].lines) :
        /\ fs.files[FINAL_DOC].lines[i].kind = "status"
        /\ FoldStr(fs.files[FINAL_DOC].lines[i].word) = FoldStr(COMPLETE)

\* C3: 'complete' is returned only when the closing document carries an
\* explicit 'Status: COMPLETE' token; with final_status unset the result is
\* never 'complete', and the trailing 'All requirements met' return is never
\* taken.
C3_CompleteOnlyExplicit ==
    Done =>
        /\ status.next_step = "complete" => ExplicitComplete
        /\ Undisposed => status.next_step # "complete"
        /\ status.next_step_detail.text # "All requirements met"

(* ----------------------------- C4 ---------------------------------- *)

\* The manifest file is absent, or it is an object with zero records.
NoRecords ==
    \/ fs.manifest.kind = "absent"
    \/ fs.manifest.kind = "object" /\ Recs = <<>>

\* C4: with the gate enabled, required documents present with content and no
\* final disposition, the test rules apply in first-match order
\* needs-tests > tests-blocked > red-phase > tests-failing > needs-impl.
C4_FirstMatchOrder ==
    (Ready /\ GateOn /\ Undisposed) =>
        /\ NoRecords => status.next_step = "needs-tests"
        /\ BlockedRecs # {} => status.next_step = "tests-blocked"
        /\ (BlockedRecs = {} /\ UnverifiedRecs # {})
            => status.next_step = "red-phase"
        /\ (BlockedRecs = {} /\ UnverifiedRecs = {} /\ FailedRecs # {})
            => status.next_step = "tests-failing"
        /\ (BlockedRecs = {} /\ UnverifiedRecs = {} /\ FailedRecs = {}
                /\ PendingRecs # {})
            => status.next_step = "needs-impl"

C4_Witness ==
    /\ Ready /\ GateOn /\ Undisposed
    /\ BlockedRecs \cap VerifiedRecs # {}
    /\ FailedRecs \cap UnverifiedRecs # {}
    /\ status.next_step = "tests-blocked"

(* ----------------------------- C5 ---------------------------------- *)

\* C5: all_red_verified is true iff the manifest has at least one record
\* and every record has red_verified = true; an empty, absent or unparsable
\* manifest yields false.
C5_AllRedVerified ==
    (Done /\ fs.dir) =>
        (status.tests.all_red_verified
            <=> /\ fs.manifest.kind = "object"
                /\ Len(Recs) >= 1
                /\ VerifiedRecs = Idx)

C5_Witness ==
    /\ Done /\ fs.dir /\ Len(Recs) = MaxTests /\ VerifiedRecs = Idx
    /\ status.tests.all_red_verified

(* ----------------------------- C6 ---------------------------------- *)

\* C6 as stated: whenever the closing document contains 'Status: BLOCKED'
\* the classification is 'blocked'.
C6_BlockedWhenever ==
    (Done /\ FinalSays(BLOCKED)) => status.next_step = "blocked"

\* C6, amended: whenever the first status token of the closing document is
\* 'Status: BLOCKED', the required documents all exist and the needs-spec
\* rule does not apply (gate disabled or 3-spec.md has content), the
\* classification is 'blocked', irrespective of the manifest state.
C6_BlockedOverridesTests ==
    (Done /\ FirstToken = BLOCKED /\ RequiredExist
        /\ (~GateOn \/ status.docs["3-spec.md"].has_content))
    => /\ status.next_step = "blocked"
       /\ status.next_step_detail.text = "Ticket marked BLOCKED in 5-final.md"

C6_Witness ==
    /\ Done /\ FinalSays(BLOCKED) /\ GateOn
    /\ FailedRecs # {} /\ UnverifiedRecs # {}
    /\ status.next_step = "blocked"

(* ----------------------------- C7 ---------------------------------- *)

\* Rules 1-5d do not fire.
NoEarlierRule ==
    /\ Ready /\ GateOn /\ Undisposed
    /\ fs.manifest.kind = "object" /\ Len(Recs) >= 1
    /\ BlockedRecs = {} /\ VerifiedRecs = Idx /\ FailedRecs = {}

\* C7 as stated: when rules 1-5d do not fire, the classification is
\* 'needs-impl' iff some record has status 'pending' or
\* required_passed < required_total.
C7_NeedsImplIffPending ==
    NoEarlierRule =>
        (status.next_step = "needs-impl"
            <=> \/ PendingRecs # {}
                \/ Cardinality(RequiredRecs \cap PassedRecs) < Cardinality(RequiredRecs))

\* C7, amended: when rules 1-5d do not fire, the classification is
\* 'needs-impl' iff some record has a status other than 'passed' (pending,
\* running, or any other value that is not failed or blocked), which covers
\* every case of required_passed < required_total; otherwise the
\* needs-final check decides.
C7_NeedsImplIffUnfinished ==
    NoEarlierRule =>
        /\ status.next_step = "needs-impl" <=> PassedRecs # Idx
        /\ Cardinality(RequiredRecs \cap PassedRecs) < Cardinality(RequiredRecs) => PassedRecs # Idx
        /\ PassedRecs = Idx => status.next_step \in {"needs-final", "complete"}

C7_Witness ==
    /\ NoEarlierRule
    /\ RunningRecs # {} /\ PendingRecs = {}
    /\ Cardinality(RequiredRecs \cap PassedRecs) = Cardinality(RequiredRecs)
    /\ status.next_step = "needs-impl"

(* ----------------------------- C8 ---------------------------------- *)

\* C8 as stated: required documents present with content, gate enabled, a
\* manifest whose required records (at least one) are all passed and
\* red-verified, and no closing document give 'needs-final', whatever the
\* non-required records are.
C8_NeedsFinalRequiredOnly ==
    (Ready /\ GateOn /\ fs.manifest.kind = "object" /\ RequiredRecs # {}
        /\ RequiredRecs \subseteq (PassedRecs \cap VerifiedRecs) /\ ~fs.files[FINAL_DOC].exists)
    => status.next_step = "needs-final"

\* C8, amended: required documents present with content, gate enabled, a
\* non-empty manifest in which every record (required or not) is passed and
\* red-verified, and no closing document give 'needs-final'.
C8_NeedsFinalAllDone ==
    (Ready /\ GateOn /\ fs.manifest.kind = "object" /\ Len(Recs) >= 1
        /\ PassedRecs \cap VerifiedRecs = Idx /\ ~fs.files[FINAL_DOC].exists)
    => /\ status.next_step = "needs-final"
       /\ status.next_step_detail.text
            = "Tests pass - create 5-final.md with Status: COMPLETE"

C8_Witness ==
    /\ Ready /\ GateOn /\ Len(Recs) = MaxTests /\ PassedRecs \cap VerifiedRecs = Idx
    /\ RequiredRecs # {} /\ RequiredRecs # Idx
    /\ ~fs.files[FINAL_DOC].exists
    /\ status.next_step = "needs-final"

(* ----------------------------- C9 ---------------------------------- *)

GateSteps ==
    {"needs-spec", "needs-tests", "tests-blocked", "red-phase", "tests-failing",
     "needs-impl"}

\* The same ticket with no manifest at all and, if it has a 3-spec.md, with
\* an unedited stub for it.
Bare ==
    [fs EXCEPT !.manifest = NoManifest,
               !.files["3-spec.md"] =
                    IF @.exists THEN File(<<Line("stub")>>) ELSE Absent]

\* The gate is bypassed: no test-gate classification, and the same result as
\* without manifest and spec content.
Bypassed ==
    /\ status.next_step \notin GateSteps
    /\ status.next_step = check_ticket(Bare).next_step
    /\ status.next_step_detail = check_ticket(Bare).next_step_detail

\* C9 as stated: with the gate disabled by a Constraints-section opt-out the
\* test gate is bypassed, and with 'Status: COMPLETE' in the closing
\* document the result is 'complete'.
C9_BypassAndComplete ==
    (Done /\ fs.dir /\ ~GateOn) =>
        /\ Bypassed
        /\ FinalSays(COMPLETE) => status.next_step = "complete"

\* C9, amended: with the gate disabled by a Constraints-section opt-out the
\* classification is never a test-gate one and does not depend on the
\* manifest or on the content of 3-spec.md; when in addition the required
\* documents all exist and the first status token of the closing document
\* is 'Status: COMPLETE', the result is 'complete'.
C9_BypassAndCompleteIfDocs ==
    (Done /\ fs.dir /\ ~GateOn) =>
        /\ Bypassed
        /\ (RequiredExist /\ FirstToken = COMPLETE) => status.next_step = "complete"

C9_Witness ==
    /\ Done /\ fs.dir /\ ~GateOn /\ RequiredExist
    /\ fs.manifest.kind = "absent" /\ FirstToken = COMPLETE
    /\ ~status.docs["3-spec.md"].has_content
    /\ status.next_step = "complete"

(* ----------------------------- C10 --------------------------------- *)

\* C10: with required documents present with content, gate enabled and no
\* final disposition, the classification is 'needs-tests' iff the manifest
\* file is absent or the manifest has zero records, and no record-level rule
\* fires for an empty manifest.
C10_NeedsTestsIffNoRecords ==
    (Ready /\ GateOn /\ Undisposed) =>
        (status.next_step = "needs-tests" <=> NoRecords)

(* ----------------------------- C11 --------------------------------- *)

\* The same artifacts without tests.json.
NoTestsJson == [fs EXCEPT !.manifest = NoManifest]

\* C11: for a ticket whose tests.json exists but cannot be parsed, the
\* result differs from the result for the same ticket without tests.json,
\* both in check_ticket and in check_tests.py.
C11_MalformedDistinct ==
    /\ (Done /\ fs.manifest = Malformed) => status # check_ticket(NoTestsJson)
    /\ (TestsDone /\ fs.manifest = Malformed) =>
            /\ tests_status # check_tests_py(NoTestsJson)
            /\ tests_status.issues # check_tests_py(NoTestsJson).issues

\* The half of C11 that check_tests.py keeps.
C11_TestsScriptDistinct ==
    (TestsDone /\ fs.manifest = Malformed) =>
        /\ tests_status.issues = <<Issue("", "Failed to parse tests.json: <e>")>>
        /\ tests_status.tests_json_exists
        /\ tests_status # check_tests_py(NoTestsJson)

(* ----------------------------- C12 --------------------------------- *)

\* C12: whatever tests.json holds, check_ticket and check_tests.py return a
\* status record and never end with an uncaught exception.
C12_NeverRaises == pc # "raised" /\ tests_pc # "raised"

(* ----------------------------- C13 --------------------------------- *)

\* The diagnostics check_tests.py attached to record i.
Diagnostics(i) ==
    {tests_status.tests[i].issues[k] : k \in 1..Len(tests_status.tests[i].issues)}

NoTrajectory(i) == Recs[i].trajectory = <<>>

Lacks(i, marker) == \A k \in 1..Len(Recs[i].trajectory) : Recs[i].trajectory[k] # marker

\* 1 if the check fails, else 0.
Failing(check) == IF check THEN 1 ELSE 0

\* C13 as stated: each of the four checks of a passed record (trajectory,
\* red_verified, [RED] marker, [GREEN] marker) yields its own diagnostic
\* whenever it fails, whatever the other three say.
C13_FourIndependentChecks ==
    TestsDone =>
        \A i \in PassedRecs :
            /\ "Passed but no trajectory recorded" \in Diagnostics(i)
                    <=> NoTrajectory(i)
            /\ "Passed but RED phase not verified" \in Diagnostics(i)
                    <=> i \in UnverifiedRecs
            /\ "Trajectory missing [RED] marker" \in Diagnostics(i)
                    <=> Lacks(i, "[RED]")
            /\ "Trajectory missing [GREEN] marker" \in Diagnostics(i)
                    <=> Lacks(i, "[GREEN]")

\* C13 (amended): the trajectory and red_verified checks of a passed record
\* are independent; each marker diagnostic is produced exactly when the
\* trajectory is non-empty and lacks the marker, so a passed record with an
\* empty trajectory and red_verified false has exactly two diagnostics.
C13_MarkerChecksNeedTrajectory ==
    TestsDone =>
        \A i \in PassedRecs :
            /\ "Passed but no trajectory recorded" \in Diagnostics(i)
                    <=> NoTrajectory(i)
            /\ "Passed but RED phase not verified" \in Diagnostics(i)
                    <=> i \in UnverifiedRecs
            /\ "Trajectory missing [RED] marker" \in Diagnostics(i)
                    <=> (~NoTrajectory(i) /\ Lacks(i, "[RED]"))
            /\ "Trajectory missing [GREEN] marker" \in Diagnostics(i)
                    <=> (~NoTrajectory(i) /\ Lacks(i, "[GREEN]"))
            /\ Len(tests_status.tests[i].issues) =
                    Failing(NoTrajectory(i)) + Failing(i \in UnverifiedRecs)
                    + Failing(~NoTrajectory(i) /\ Lacks(i, "[RED]"))
                    + Failing(~NoTrajectory(i) /\ Lacks(i, "[GREEN]"))

\* A passed, unverified record without trajectory has two diagnostics, and
\* another passed record has a trajectory without markers and both marker
\* diagnostics.
C13_Witness ==
    /\ TestsDone
    /\ \E i \in PassedRecs \cap UnverifiedRecs :
          NoTrajectory(i) /\ Len(tests_status.tests[i].issues) = 2
    /\ \E i \in PassedRecs :
          /\ ~NoTrajectory(i)
          /\ {"Trajectory missing [RED] marker",
              "Trajectory missing [GREEN] marker"} \subseteq Diagnostics(i)

(* ----------------------------- C14 --------------------------------- *)

\* C14: if check_tests.py returns valid = true (exit code 0), every passed
\* record has a non-empty trajectory, red_verified = true and a trajectory
\* with both a [RED] and a [GREEN] marker; equivalently, a passed record
\* with a diagnostic of its own makes the manifest issue list non-empty.
C14_ValidMeansPassedRecordsSound ==
    (TestsDone /\ tests_status.valid /\ tests_exit = 0) =>
        \A i \in PassedRecs :
            /\ ~NoTrajectory(i)
            /\ i \in VerifiedRecs
            /\ ~Lacks(i, "[RED]")
            /\ ~Lacks(i, "[GREEN]")
            /\ Diagnostics(i) = {}

(* ----------------------------- C15 --------------------------------- *)

DefinitionLines == fs.files["1-definition.md"].lines

\* The lines of the Constraints section that starts at heading line h: the
\* lines below the heading up to the next heading of a section or
\* subsection.
OwnBody(h) ==
    {i \in (h + 1)..Len(DefinitionLines) :
        \A j \in (h + 1)..i : ~IsSection(DefinitionLines[j])}

\* Some Constraints section has the opt-out marker in its own body.
OptOutInConstraints ==
    \E h \in 1..Len(DefinitionLines) :
        /\ DefinitionLines[h].kind = "h2_constraints"
        /\ \E i \in OwnBody(h) : DefinitionLines[i].kind = "tdd_no"

\* C15: the gate is enabled unless the definition document has a
\* Constraints section whose own body contains 'TDD: no'; an absent
\* document, a document without Constraints section and a document whose
\* only marker lies before the section or in a later section or subsection
\* are enabled.
C15_GateOffOnlyByOwnBody ==
    Done => (status.tdd_enabled <=> ~OptOutInConstraints)

(* ----------------------------- C16 --------------------------------- *)

\* len(content.strip()) of 3-spec.md as written in the file.
SpecTrimmedLen == StrippedLen(fs.files["3-spec.md"].lines)

C16_WitnessAbove ==
    /\ Done
    /\ RequiredExist /\ GateOn
    /\ SpecTrimmedLen = MinContent + 1
    /\ status.next_step = "complete"

(* ----------------------------- C17 --------------------------------- *)

\* The classifications of a ticket whose directory exists.
Classifications ==
    {"missing-docs", "needs-spec", "complete", "blocked", "needs-tests",
     "tests-blocked", "red-phase", "tests-failing", "needs-impl",
     "needs-final"}

\* The coarse outcome of a run: not-found, complete, blocked, or an
\* actionable issue.
CoarseOutcome(exists, next_step) ==
    IF ~exists THEN "not-found"
    ELSE IF next_step \in {"complete", "blocked"} THEN next_step
    ELSE "actionable-issue"

\* C17: the four coarse outcomes have pairwise different exit codes: the
\* exit code of a run differs from the exit code of every classification
\* of another coarse outcome, so a ticket that is not found exits with
\* another code than a ticket with an actionable issue.
C17_ExitCodePerOutcome ==
    Done =>
        \A tag \in Classifications :
            CoarseOutcome(TRUE, tag) # CoarseOutcome(status.exists, status.next_step)
                => main_exit(tag) # exit_code

(* ----------------------------- C18 --------------------------------- *)

\* The ticket is found only under tickets/archive/<id>.
ArchivedOnly == ~fs.dir /\ fs.archive.exists

\* The same ticket with its archived directory as the active one.
Unarchived == [fs EXCEPT !.dir = TRUE, !.files = fs.archive.files]

\* Neither an active nor an archived directory.
NoArchiveAtAll == [fs EXCEPT !.dir = FALSE, !.archive = NoArchive]

\* C18: a ticket found only in the archive is present: check_ticket
\* classifies it from its documents and does not return 'missing-docs:
\* Ticket directory <id> not found'.
C18_ArchivedTicketPresent ==
    (Done /\ ArchivedOnly) =>
        /\ status.exists
        /\ status.next_step_detail # check_ticket(NoArchiveAtAll).next_step_detail
        /\ status.next_step = check_ticket(Unarchived).next_step

(* ----------------------------- C20 --------------------------------- *)

\* The results of check_tests.py for the same artifacts with one more
\* record appended to the manifest.
Appended ==
    {check_tests_py([fs EXCEPT !.manifest.tests = Append(@, r)])
     : r \in NamedRecords(Len(Recs) + 1)}

\* a <= b for two percentages.
PctLe(a, b) == a.num * b.den <= b.num * a.den

\* The declared cases and those among them that are covered.
Declared == 1..Len(tests_status.spec_cases)

CoveredCases == {k \in Declared : tests_status.spec_cases[k].covered}

\* C20: for a non-empty manifest, appending a test record never lowers
\* coverage_pct and never turns a covered spec case into an uncovered one,
\* and coverage_pct equals covered / declared x 100 for the declared cases.
C20_CoverageMonotonic ==
    (TestsDone /\ Len(Recs) > 0) =>
        /\ \A after \in Appended :
              /\ PctLe(tests_status.coverage_pct, after.coverage_pct)
              /\ \A k \in CoveredCases : after.spec_cases[k].covered
        /\ Declared # {} =>
              tests_status.coverage_pct.num * Cardinality(Declared)
                  = 100 * Cardinality(CoveredCases) * tests_status.coverage_pct.den

\* Half of the declared cases are covered, and appending some record
\* covers the other half.
C20_Witness ==
    /\ TestsDone /\ Len(Recs) > 0
    /\ Cardinality(CoveredCases) = 1 /\ Cardinality(Declared) = 2
    /\ tests_status.coverage_pct = Pct(1, 2)
    /\ \E after \in Appended : after.coverage_pct = Pct(2, 2)

(* ------------------------------------------------------------------ *)
(* Specification: runs of check_ticket.py beside a writer of the       *)
(* artifacts.  A run reads one artifact per step, in the order of      *)
(* check_ticket; a later run starts from a new TicketStatus.           *)
(* ------------------------------------------------------------------ *)

\* Largest number of writes of the concurrent writer.
MaxWrites == 2

\* The artifacts the writer leaves behind: the ticket directory removed or
\* created empty, 1-definition.md or 5-final.md rewritten, tests.json
\* rewritten (tests.json is outside the ticket directory).
Writes(f) ==
    {[f EXCEPT !.manifest = m] : m \in {NoManifest, PassedManifest}}
    \cup (IF f.dir
          THEN {[f EXCEPT !.dir = FALSE, !.files = NoFiles]}
               \cup {[f EXCEPT !.files["1-definition.md"] = d] : d \in DefinitionFiles}
               \cup {[f EXCEPT !.files[FINAL_DOC] = w] : w \in FinalWords}
          ELSE {[f EXCEPT !.dir = TRUE]})

\* A run is between its first and its last read.
InRun == pc \notin {"start", "done", "raised"}

Write ==
    /\ writes_left > 0
    /\ \E after \in Writes(fs) \ {fs} :
          /\ fs' = after
          /\ snapshots' = IF InRun THEN snapshots \cup {after} ELSE snapshots
    /\ writes_left' = writes_left - 1
    /\ UNCHANGED <<status, pc, exit_code, tests_status, tests_pc, tests_exit,
                   others>>

\* The status a run starts from, whatever an earlier run returned.
FreshStatus_Kept(previous) == previous

\* status = TicketStatus(ticket_id=ticket_id)
FreshStatus(previous) == NewTicketStatus

\* A new process: the ticket directory is looked up.
StartRun ==
    /\ pc \in {"start", "done", "raised"}
    /\ snapshots' = {fs}
    /\ IF ~fs.dir
       THEN /\ status' = WithNextStep(FreshStatus(status))
            /\ pc' = "done"
            /\ exit_code' = main_exit(status'.next_step)
       ELSE /\ status' = [FreshStatus(status) EXCEPT !.exists = TRUE]
            /\ pc' = "tdd"
            /\ exit_code' = Running
    /\ UNCHANGED <<fs, writes_left, tests_status, tests_pc, tests_exit, others>>

\* status.tdd_enabled = check_tdd_enabled(ticket_path)
ReadTdd ==
    /\ pc = "tdd"
    /\ status' = [status EXCEPT
                    !.tdd_enabled = check_tdd_enabled(fs.files["1-definition.md"])]
    /\ pc' = "doc1"
    /\ UNCHANGED <<fs, exit_code, tests_status, tests_pc, tests_exit, writer,
                   others>>

\* The position of the run before it reads each of all_docs.
DocPc == <<"doc1", "doc2", "doc3", "doc4", "doc5">>

\* status.docs[doc] = check_doc(ticket_path, doc)
ReadDoc ==
    /\ \E i \in 1..Len(AllDocs) :
          /\ pc = DocPc[i]
          /\ status' = [status EXCEPT
                          !.docs = (AllDocs[i] :> check_doc(fs.files[AllDocs[i]]))
                                      @@ status.docs]
          /\ pc' = IF i < Len(AllDocs) THEN DocPc[i + 1] ELSE "final"
    /\ UNCHANGED <<fs, exit_code, tests_status, tests_pc, tests_exit, writer,
                   others>>

\* status.final_status = parse_final_status(ticket_path)
ReadFinal ==
    /\ pc = "final"
    /\ status' = [status EXCEPT
                    !.final_status = parse_final_status(fs.files[FINAL_DOC])]
    /\ pc' = "tests"
    /\ UNCHANGED <<fs, exit_code, tests_status, tests_pc, tests_exit, writer,
                   others>>

\* status.tests = check_tests(docs_path, ticket_id), determine_next_step and
\* the exit of main.
ReadTests ==
    /\ pc = "tests"
    /\ IF Raises(fs.manifest)
       THEN /\ pc' = "raised"
            /\ exit_code' = UncaughtExit
            /\ UNCHANGED status
       ELSE /\ status' = WithNextStep([status EXCEPT
                                          !.tests = check_tests(fs.manifest)])
            /\ pc' = "done"
            /\ exit_code' = main_exit(status'.next_step)
    /\ UNCHANGED <<fs, tests_status, tests_pc, tests_exit, writer, others>>

InitRerun ==
    /\ \E m \in {NoManifest, PassedManifest} :
          \/ fs = [dir |-> FALSE, files |-> NoFiles, manifest |-> m,
                   archive |-> NoArchive]
          \/ \E d \in DefinitionFiles, w \in FinalWords :
                fs = [dir |-> TRUE,
                      files |-> [WrittenFiles EXCEPT !["1-definition.md"] = d,
                                                     ![FINAL_DOC] = w],
                      manifest |-> m, archive |-> NoArchive]
    /\ status = NewTicketStatus
    /\ pc = "start"
    /\ exit_code = Running
    /\ TestsIdle
    /\ writes_left = MaxWrites
    /\ snapshots = {}
    /\ phase_status = None
    /\ phase_exit = Running
    /\ integrity_status = None
    /\ integrity_exit = Running
    /\ result = None
    /\ validate_exit = Running

NextRerun ==
    \/ Write
    \/ StartRun
    \/ ReadTdd
    \/ ReadDoc
    \/ ReadFinal
    \/ ReadTests

SpecRerun == InitRerun /\ [][NextRerun]_vars

\* A run that ended and that no write fell into.
Untorn == pc = "done" /\ snapshots = {fs}

\* C21: a run of check_ticket that starts after the writer's last write
\* returns exactly the status, and exits with the code, that the final
\* artifact contents determine, whatever earlier runs, torn or not, returned.
C21_RerunConverges ==
    (Untorn /\ writes_left = 0) =>
        /\ status = check_ticket(fs)
        /\ exit_code = main_exit(check_ticket(fs).next_step)

\* A run after the last write, after the ticket went through two writes.
C21_Witness ==
    /\ Untorn
    /\ writes_left = 0
    /\ status.next_step = "complete"

\* A run with a write in between its reads ends with a classification that
\* none of the artifact contents it ran over determines.
C21_TornWitness ==
    /\ pc = "done"
    /\ \A s \in snapshots : check_ticket(s).next_step # status.next_step

(* ------------------------------------------------------------------ *)
(* check_phase.py                                                      *)
(* ------------------------------------------------------------------ *)

\* The phase_id argument of the run.
phase_id == "1"

\* A line of roadmap.md: "### Phase <p>: <title>", "### Phase <p>:" without
\* a title, or a line that mentions one ticket id.
PhaseLine(kind, p) == [kind |-> kind, word |-> <<p>>]

TicketLine(id) == [kind |-> "ticket", word |-> <<id>>]

\* A line that starts with "###".
IsH3(l) == l.kind \in {"h3_phase", "h3_phase_bare"}

IsBlank(l) == l.kind = "blank"

\* The first index of a set of line numbers.
First(hits) == CHOOSE i \in hits : \A j \in hits : i <= j

\* group(2) of phase_pattern for the heading at line h.  '[:\s-]+' runs over
\* newlines: after a heading without a title the next non-blank line is
\* taken as the title.  The content starts after the title's newline and
\* stops before the first later line that follows a newline of the content
\* and starts with "###".
PhaseContent(lines, h) ==
    LET n == Len(lines)
        nonblank == {i \in (h + 1)..n : ~IsBlank(lines[i])}
        title == IF lines[h].kind = "h3_phase" THEN h
                 ELSE IF nonblank = {} THEN h
                 ELSE First(nonblank)
        start == title + 1
        stops == {i \in (start + 1)..n : IsH3(lines[i])}
        stop == IF stops = {} THEN n + 1 ELSE First(stops)
    IN  SubSeq(lines, start, stop - 1)

RECURSIVE FindTickets(_)

\* re.findall(r'\b(T\d+)\b', phase_content)
FindTickets(lines) ==
    IF lines = <<>> THEN <<>>
    ELSE LET rest == FindTickets(Tail(lines))
         IN  IF Head(lines).kind = "ticket"
             THEN <<Head(lines).word[1]>> \o rest
             ELSE rest

RECURSIVE DictFromKeys(_, _)

\* list(dict.fromkeys(tickets)): the first occurrence of every id, in order.
DictFromKeys(ids, seen) ==
    IF ids = <<>> THEN <<>>
    ELSE IF Head(ids) \in seen
         THEN DictFromKeys(Tail(ids), seen)
         ELSE <<Head(ids)>> \o DictFromKeys(Tail(ids), seen \cup {Head(ids)})

\* (found, tickets) of parse_roadmap_phase; the goal is a text for the
\* reader and is not kept.
parse_roadmap_phase(roadmap) ==
    IF ~roadmap.exists
    THEN [found |-> FALSE, tickets |-> <<>>]
    ELSE LET lines == roadmap.lines
             hits == {i \in 1..Len(lines) :
                        IsH3(lines[i]) /\ lines[i].word = <<phase_id>>}
         IN  IF hits = {}
             THEN [found |-> FALSE, tickets |-> <<>>]
             ELSE [found |-> TRUE,
                   tickets |-> DictFromKeys(
                       FindTickets(PhaseContent(lines, First(hits))), {})]

TicketSummary(id, exists, has_final, final_status, next_step) ==
    [ticket_id |-> id, exists |-> exists, has_final |-> has_final,
     final_status |-> final_status, next_step |-> next_step]

check_ticket_status(id, f) ==
    IF ~f.dir
    THEN TicketSummary(id, FALSE, FALSE, None, "missing")
    ELSE IF f.files[FINAL_DOC].exists
    THEN LET final_status == parse_final_status(f.files[FINAL_DOC])
         IN  IF final_status # None
             THEN TicketSummary(id, TRUE, TRUE, final_status,
                      IF final_status = COMPLETE THEN "complete" ELSE "blocked")
             ELSE TicketSummary(id, TRUE, TRUE, None, "needs-final-status")
    ELSE IF \E i \in 1..Len(REQUIRED_DOCS) : ~f.files[REQUIRED_DOCS[i]].exists
    THEN TicketSummary(id, TRUE, FALSE, None, "missing-docs")
    ELSE TicketSummary(id, TRUE, FALSE, None, "in-progress")

\* next_ticket = None, as the text it is formatted to.
NoTicket == "None"

\* PhaseStatus(phase_id=phase_id)
NewPhaseStatus ==
    [phase_id |-> phase_id, found |-> FALSE, tickets |-> <<>>, total |-> 0,
     complete |-> 0, blocked |-> 0, in_progress |-> 0,
     phase_complete |-> FALSE,
     next_step |-> [text |-> "", count |-> 0, ticket |-> NoTicket],
     next_ticket |-> NoTicket]

\* A next_step text with the number and the ticket id it is formatted with.
PhaseStep(text, count, ticket) ==
    [text |-> text, count |-> count, ticket |-> ticket]

\* next_ticket, set by every ticket that is in progress.
NextTicket_Last(next_ticket, id) == id

\* if status.next_ticket is None: status.next_ticket = ticket_id
NextTicket(next_ticket, id) ==
    IF next_ticket = NoTicket THEN id ELSE next_ticket

\* The body of the loop over the tickets of the phase.
TallyTicket(st, summary) ==
    LET listed == [st EXCEPT !.tickets = Append(st.tickets, summary)]
    IN  IF summary.final_status = COMPLETE
        THEN [listed EXCEPT !.complete = st.complete + 1]
        ELSE IF summary.final_status = BLOCKED
        THEN [listed EXCEPT !.blocked = st.blocked + 1]
        ELSE [listed EXCEPT
                !.in_progress = st.in_progress + 1,
                !.next_ticket = NextTicket(st.next_ticket, summary.ticket_id)]

RECURSIVE TallyTickets(_, _, _)

TallyTickets(st, ids, f) ==
    IF ids = <<>> THEN st
    ELSE TallyTickets(
            TallyTicket(st, check_ticket_status(Head(ids), f.tickets[Head(ids)])),
            Tail(ids), f)

\* The phase is complete although a ticket is blocked.
PhaseVerdict_BlockedLast(st) ==
    IF st.total = 0
    THEN [st EXCEPT !.next_step = PhaseStep("No tickets in phase", 0, NoTicket)]
    ELSE IF st.complete + st.blocked = st.total
    THEN [st EXCEPT !.phase_complete = TRUE,
             !.next_step = PhaseStep("Phase complete - ready to archive", 0, NoTicket)]
    ELSE [st EXCEPT !.next_step =
             PhaseStep("ticket(s) remaining - next:", st.total - st.complete,
                       st.next_ticket)]

\* "Determine phase status"
PhaseVerdict(st) ==
    IF st.total = 0
    THEN [st EXCEPT !.next_step = PhaseStep("No tickets in phase", 0, NoTicket)]
    ELSE IF st.blocked > 0
    THEN [st EXCEPT !.next_step = PhaseStep("ticket(s) blocked", st.blocked, NoTicket)]
    ELSE IF st.complete = st.total
    THEN [st EXCEPT !.phase_complete = TRUE,
             !.next_step = PhaseStep("Phase complete - ready to archive", 0, NoTicket)]
    ELSE [st EXCEPT !.next_step =
             PhaseStep("ticket(s) remaining - next:", st.total - st.complete,
                       st.next_ticket)]

check_phase(f) ==
    LET parsed == parse_roadmap_phase(f.roadmap)
    IN  IF ~parsed.found
        THEN [NewPhaseStatus EXCEPT
                !.next_step = PhaseStep("not found in roadmap.md", 0, NoTicket)]
        ELSE PhaseVerdict(
                TallyTickets([NewPhaseStatus EXCEPT
                                 !.found = TRUE,
                                 !.total = Len(parsed.tickets)],
                             parsed.tickets, f))

\* "Exit codes: 0=complete, 1=in-progress, 2=blocked, 3=not-found"
phase_main_exit(st) ==
    IF ~st.found THEN 3
    ELSE IF st.phase_complete THEN 0
    ELSE IF st.blocked > 0 THEN 2
    ELSE 1

\* sys.exit(1) of main when the docs path does not exist.
NoDocsPathExit == 1

\* main of check_phase.py
CheckPhase ==
    /\ phase_exit = Running
    /\ IF ~fs.docs
       THEN /\ phase_exit' = NoDocsPathExit
            /\ UNCHANGED phase_status
       ELSE /\ phase_status' = check_phase(fs)
            /\ phase_exit' = phase_main_exit(phase_status')
    /\ UNCHANGED <<fs, status, pc, exit_code, tests_status, tests_pc,
                   tests_exit, writer, integrity_status, integrity_exit,
                   result, validate_exit>>

(* ------------------------------------------------------------------ *)
(* Specification: one run of check_phase.py over any roadmap and       *)
(* ticket directories                                                  *)
(* ------------------------------------------------------------------ *)

\* Largest number of lines of roadmap.md.
MaxRoadmap == 3

TicketIds == {"T00001", "T00002"}

RoadmapLines ==
    {PhaseLine(k, p) : k \in {"h3_phase", "h3_phase_bare"}, p \in {phase_id}}
    \cup {PhaseLine("h3_phase", "2"), Line("blank"), Line("prose")}
    \cup {TicketLine(id) : id \in TicketIds}

Roadmaps ==
    {Absent} \cup
    UNION {{File(ls) : ls \in [1..n -> RoadmapLines]} : n \in 0..MaxRoadmap}

\* A ticket of the phase: no directory; the three required documents with
\* a closing document that is absent, says COMPLETE, says BLOCKED, says
\* BLOCKED with a Kelvin sign or has no status; a closing document that says
\* COMPLETE or BLOCKED beside a missing plan.
PhaseTickets ==
    {[dir |-> FALSE, files |-> NoFiles, manifest |-> PassedManifest,
      archive |-> NoArchive]}
    \cup {[dir |-> TRUE, files |-> [WrittenFiles EXCEPT ![FINAL_DOC] = w],
           manifest |-> PassedManifest, archive |-> NoArchive]
          : w \in FinalWords \cup {File(<<Line("prose")>>),
                                   File(<<Line("prose"), StatusLine(BLOCKED_KELVIN)>>)}}
    \cup {[dir |-> TRUE,
           files |-> [WrittenFiles EXCEPT ![FINAL_DOC] = w,
                                          !["2-plan.md"] = Absent],
           manifest |-> PassedManifest, archive |-> NoArchive]
          : w \in FinalWords \ {Absent}}

InitPhase ==
    /\ \/ fs = [docs |-> FALSE, roadmap |-> Absent,
                tickets |-> [id \in TicketIds |-> CHOOSE t \in PhaseTickets : ~t.dir]]
       \/ \E r \in Roadmaps, ts \in [TicketIds -> PhaseTickets] :
             fs = [docs |-> TRUE, roadmap |-> r, tickets |-> ts]
    /\ status = NewTicketStatus
    /\ pc = "idle"
    /\ exit_code = Running
    /\ TestsIdle
    /\ OthersIdle

NextPhase == CheckPhase

SpecPhase == InitPhase /\ [][NextPhase]_vars

\* check_phase has returned a PhaseStatus.
PhaseDone == phase_exit # Running /\ fs.docs

\* The TicketSummary records of the phase.
Listed == {phase_status.tickets[i] : i \in 1..Len(phase_status.tickets)}

\* The classification check_ticket gives a ticket of the phase.
Classified(id) == check_ticket(fs.tickets[id]).next_step

\* C22: check_phase counts a ticket of the phase as complete (as blocked)
\* exactly when check_ticket classifies it 'complete' ('blocked'), so a
\* phase is reported complete only if check_ticket classifies every one of
\* its tickets 'complete'.
C22_PhaseFoldsCheckTicket ==
    PhaseDone =>
        /\ \A t \in Listed :
              /\ (t.final_status = COMPLETE) <=> (Classified(t.ticket_id) = "complete")
              /\ (t.final_status = BLOCKED) <=> (Classified(t.ticket_id) = "blocked")
        /\ phase_status.phase_complete =>
              \A t \in Listed : Classified(t.ticket_id) = "complete"

\* The ticket ids of the phase, in roadmap order.
PhaseIds == [i \in 1..Len(phase_status.tickets) |-> phase_status.tickets[i].ticket_id]

\* C27: the tallies partition the distinct ticket ids of a found phase;
\* phase_complete iff total > 0 and complete = total, and then nothing is
\* blocked or in progress; the exit code is 3 iff the phase is not found,
\* 0 iff phase_complete, 2 iff found with blocked > 0, and 1 otherwise.
C27_TalliesAndExitCodes ==
    PhaseDone =>
        LET st == phase_status
        IN  /\ st.found =>
                 /\ st.total = Cardinality({PhaseIds[i] : i \in 1..Len(PhaseIds)})
                 /\ st.total = Len(PhaseIds)
                 /\ st.complete + st.blocked + st.in_progress = st.total
                 /\ st.complete = Cardinality({t \in Listed : t.final_status = COMPLETE})
                 /\ st.blocked = Cardinality({t \in Listed : t.final_status = BLOCKED})
            /\ st.phase_complete <=> (st.found /\ st.total > 0 /\ st.complete = st.total)
            /\ st.phase_complete => (st.blocked = 0 /\ st.in_progress = 0)
            /\ (phase_exit = 3) <=> ~st.found
            /\ (phase_exit = 0) <=> st.phase_complete
            /\ (phase_exit = 2) <=> (st.found /\ st.blocked > 0)
            /\ (phase_exit = 1) <=>
                  (st.found /\ ~st.phase_complete /\ st.blocked = 0)

\* A phase whose roadmap section names the same ticket twice: the ticket is
\* counted once, it is in progress and the exit code is 1.
C27_Witness ==
    /\ PhaseDone
    /\ phase_status.found
    /\ phase_status.total = 1
    /\ phase_status.in_progress = 1
    /\ phase_exit = 1
    /\ \E i, j \in 1..Len(fs.roadmap.lines) :
          /\ i < j
          /\ fs.roadmap.lines[i] = fs.roadmap.lines[j]
          /\ fs.roadmap.lines[i].kind = "ticket"

\* C28: whenever check_phase reports 'N ticket(s) remaining - next: X',
\* N = total - complete >= 1 and X is the first ticket of the phase, in
\* roadmap order, whose final_status is neither COMPLETE nor BLOCKED;
\* next_ticket is None exactly when every ticket of the phase is COMPLETE
\* or BLOCKED.
C28_NextTicketIsFirstOpen ==
    PhaseDone =>
        LET st == phase_status
            open == {i \in 1..Len(st.tickets) :
                        st.tickets[i].final_status \notin {COMPLETE, BLOCKED}}
        IN  /\ st.next_step.text = "ticket(s) remaining - next:" =>
                 /\ st.next_step.count = st.total - st.complete
                 /\ st.next_step.count >= 1
                 /\ st.next_step.ticket # NoTicket
                 /\ open # {}
                 /\ st.next_step.ticket = st.tickets[First(open)].ticket_id
            /\ (st.next_ticket = NoTicket) <=> (open = {})

\* Two tickets in progress, the first of them reported as the next one.
C28_Witness ==
    /\ PhaseDone
    /\ phase_status.next_step.text = "ticket(s) remaining - next:"
    /\ phase_status.in_progress = 2
    /\ phase_status.next_step.ticket = phase_status.tickets[1].ticket_id

(* ------------------------------------------------------------------ *)
(* Specification: one run of check_ticket.py over a 5-final.md drawn   *)
(* line by line                                                        *)
(* ------------------------------------------------------------------ *)

\* "Status: CLOSED": a label with a word that is no status token.
CLOSED == <<"C", "L", "O", "S", "E", "D">>

FinalLines ==
    {Line("prose"), Line("blank"),
     StatusLine(COMPLETE),
     StatusLine(<<"b", "l", "o", "c", "k", "e", "d">>),
     StatusLine(BLOCKED_KELVIN),
     StatusLine(CLOSED)}

FinalTexts ==
    {Absent} \cup
    UNION {{File(ls) : ls \in [1..n -> FinalLines]} : n \in 0..MaxLines}

\* tests.json: absent, one passed record, one failed record.
FailedManifest ==
    Manifest(<<TestRecord(1, [status |-> "failed", required |-> "true",
                              red_verified |-> "true"])>>)

FinalManifests == {NoManifest, PassedManifest, FailedManifest}

InitFinal ==
    /\ \E t \in FinalTexts, m \in FinalManifests :
          fs = [dir |-> TRUE, files |-> [WrittenFiles EXCEPT ![FINAL_DOC] = t],
                manifest |-> m, archive |-> NoArchive]
    /\ status = NewTicketStatus
    /\ pc = "start"
    /\ exit_code = Running
    /\ TestsIdle
    /\ OthersIdle

NextFinal == CheckTicket

SpecFinal == InitFinal /\ [][NextFinal]_vars

\* The lines of 5-final.md that carry a 'Status:' label with one of the two
\* tokens, in any case.
Labels ==
    {i \in 1..Len(fs.files[FINAL_DOC].lines) :
        /\ fs.files[FINAL_DOC].lines[i].kind = "status"
        /\ \E token \in {COMPLETE, BLOCKED} :
              FoldStr(fs.files[FINAL_DOC].lines[i].word) = FoldStr(token)}

\* C23: the final status is unset when 5-final.md is absent or has no
\* 'Status:' label with one of the two tokens; otherwise it is the token of
\* the first such label, upper-cased; it is COMPLETE or BLOCKED only if that
\* label spells the word; and it is the same whatever the manifest holds.
C23_FinalStatusFromLabelOnly ==
    Done =>
        /\ (~fs.files[FINAL_DOC].exists \/ Labels = {}) =>
              status.final_status = None
        /\ Labels # {} =>
              status.final_status =
                  UpperStr(fs.files[FINAL_DOC].lines[First(Labels)].word)
        /\ status.final_status \in {COMPLETE, BLOCKED} =>
              \E i \in Labels :
                  UpperStr(fs.files[FINAL_DOC].lines[i].word) = status.final_status
        /\ \A m \in FinalManifests :
              check_ticket([fs EXCEPT !.manifest = m]).final_status
                  = status.final_status

\* A closing document with a label that is no token, then a lower-case
\* BLOCKED label, then a COMPLETE label, beside a manifest with a failed
\* record: the reader yields BLOCKED.
C23_Witness ==
    /\ Done
    /\ Len(fs.files[FINAL_DOC].lines) >= 3
    /\ fs.files[FINAL_DOC].lines[1] = StatusLine(CLOSED)
    /\ 2 \in Labels
    /\ fs.files[FINAL_DOC].lines[3] = StatusLine(COMPLETE)
    /\ fs.manifest = FailedManifest
    /\ status.final_status = BLOCKED

(* ----------------------------- C24 --------------------------------- *)

\* C24: when the classification is tests-blocked, red-phase, tests-failing,
\* or needs-impl for unfinished records, the detail lists, in manifest
\* order, the identifiers of exactly the records that triggered the rule
\* (blocked records; records without red_verified; failed records; records
\* counted as pending), and the list is not empty.
C24_DetailEnumeratesTriggers ==
    Done =>
        LET is_blocked(t) == t.status = "blocked"
            unverified(t) == t.red_verified # "true"
            is_failed(t) == t.status = "failed"
            counted_pending(t) == t.status \notin {"passed", "failed", "blocked"}
            items == status.next_step_detail.items
        IN  /\ status.next_step = "tests-blocked" =>
                  items # <<>> /\ items = IdsOf(SelectSeq(Recs, is_blocked))
            /\ status.next_step = "red-phase" =>
                  items # <<>> /\ items = IdsOf(SelectSeq(Recs, unverified))
            /\ status.next_step = "tests-failing" =>
                  items # <<>> /\ items = IdsOf(SelectSeq(Recs, is_failed))
            /\ (/\ status.next_step = "needs-impl"
                /\ status.next_step_detail.text = "Implement to pass: ") =>
                  items # <<>> /\ items = IdsOf(SelectSeq(Recs, counted_pending))

(* ------------------------------------------------------------------ *)
(* Specification: one run of check_ticket.py over manifests whose      *)
(* records may lack a status or carry an unknown one                   *)
(* ------------------------------------------------------------------ *)

\* A record's status: one of the five values, a string that is none of them,
\* or no "status" key; its "required": true, false, or no key.
CountFields ==
    [status : {"pending", "running", "passed", "failed", "blocked", "skipped",
               MISSING},
     required : {"true", "false", MISSING},
     red_verified : {"true"}]

InitCounts ==
    /\ \E n \in 0..MaxTests : \E fields \in [1..n -> CountFields] :
          fs = [dir |-> TRUE, files |-> WrittenFiles,
                manifest |-> Manifest([i \in 1..n |-> TestRecord(i, fields[i])]),
                archive |-> NoArchive]
    /\ status = NewTicketStatus
    /\ pc = "start"
    /\ exit_code = Running
    /\ TestsIdle
    /\ OthersIdle

NextCounts == CheckTicket

SpecCounts == InitCounts /\ [][NextCounts]_vars

\* C25: the status counts partition the records of a loaded manifest: each
\* record is counted as passed, failed or blocked by its status and as
\* pending otherwise (running, no status, an unknown status), so the four
\* counts add up to total; required_passed <= required_total <= total and
\* required_passed <= passed.
C25_CountsPartition ==
    (Done /\ status.tests.exists) =>
        LET t == status.tests
            uncounted == Idx \ (PassedRecs \cup FailedRecs \cup BlockedRecs)
        IN  /\ t.total = Len(Recs)
            /\ t.passed = Cardinality(PassedRecs)
            /\ t.failed = Cardinality(FailedRecs)
            /\ t.blocked = Cardinality(BlockedRecs)
            /\ t.pending = Cardinality(uncounted)
            /\ t.passed + t.failed + t.blocked + t.pending = t.total
            /\ t.required_total = Cardinality(RequiredRecs)
            /\ t.required_passed = Cardinality(RequiredRecs \cap PassedRecs)
            /\ t.required_passed <= t.required_total
            /\ t.required_total <= t.total
            /\ t.required_passed <= t.passed

\* Two records, one running and one without a status: both are counted as
\* pending and nowhere else.
C25_Witness ==
    /\ Done
    /\ status.tests.exists
    /\ Len(Recs) = 2
    /\ Recs[1].status = "running"
    /\ Recs[2].status = MISSING
    /\ status.tests.pending = 2
    /\ status.tests.total = 2

(* ----------------------------- C26 --------------------------------- *)

\* C26: check_tests.py reports 'All tests passed with valid trajectory' only
\* when every record of the manifest has status 'passed', a non-empty
\* trajectory and red_verified = true; a manifest with a running, pending,
\* failed or blocked record never receives that message.
C26_AllPassedOnlyWhenAllPassed ==
    (/\ TestsDone
     /\ tests_status.next_step.text = "All tests passed with valid trajectory") =>
        \A i \in Idx :
            /\ Recs[i].status = "passed"
            /\ Recs[i].trajectory # <<>>
            /\ Recs[i].red_verified = "true"

(* ------------------------------------------------------------------ *)
(* check_integrity.py                                                  *)
(* ------------------------------------------------------------------ *)

IssueIds == {"I00001"}

\* The item ids in the order sorted() gives them.
IdOrder == <<"I00001", "T00001", "T00002">>

\* sorted(...) of a set of ids
Sorted(ids) ==
    LET kept(id) == id \in ids
    IN  SelectSeq(IdOrder, kept)

\* A line of index.md that starts with an item id.
IndexEntry(id) == [kind |-> "entry", word |-> <<id>>]

\* The ids a text mentions, at the start of a line or anywhere.
Mentioned(lines, kinds) ==
    {lines[i].word[1] : i \in {j \in 1..Len(lines) : lines[j].kind \in kinds}}

\* get_directories(path, prefix): the names of the directories, sorted.
get_directories(names) == Sorted(names)

\* re.findall(r'^([TI]\d+)', content, re.MULTILINE): ids of either kind, at
\* the start of a line only.
parse_index(index) ==
    IF ~index.exists THEN <<>>
    ELSE Sorted(Mentioned(index.lines, {"entry"}))

\* re.findall(r'\b(T\d+)\b', content) and re.findall(r'\b(I\d+)\b', content)
parse_roadmap(roadmap) ==
    IF ~roadmap.exists
    THEN [tickets |-> <<>>, issues |-> <<>>]
    ELSE LET ids == Mentioned(roadmap.lines, {"entry", "ticket"})
         IN  [tickets |-> Sorted(ids \cap TicketIds),
              issues |-> Sorted(ids \cap IssueIds)]

\* The elements of a list.
Elems(list) == {list[i] : i \in 1..Len(list)}

IntegrityIssue(type, item, of) == [type |-> type, item |-> item, of |-> of]

\* status.issues.append(IntegrityIssue(...)); status.valid = False, for the
\* items of a list that fail a check.
RECURSIVE Report(_, _, _, _, _)

Report(st, type, of, list, failing) ==
    IF list = <<>> THEN st
    ELSE Report(
            IF Head(list) \in failing
            THEN [st EXCEPT !.valid = FALSE,
                            !.issues = Append(@, IntegrityIssue(type, Head(list), of))]
            ELSE st,
            type, of, Tail(list), failing)

\* An index entry is an orphan whenever it has no active directory.
Orphans_ActiveOnly(in_index, in_dir, archived) ==
    Elems(in_index) \ Elems(in_dir)

\* if ticket not in status.tickets_in_dir and ticket not in status.archived_tickets
Orphans(in_index, in_dir, archived) ==
    Elems(in_index) \ (Elems(in_dir) \cup Elems(archived))

\* The four checks over the items of one kind ("tickets" or "issues").
CheckItems(st, of, in_dir, in_index, in_roadmap, archived) ==
    LET s1 == Report(st, "missing_index", of, in_dir,
                     Elems(in_dir) \ Elems(in_index))
        s2 == Report(s1, "orphan_index", of, in_index,
                     Orphans(in_index, in_dir, archived))
        s3 == Report(s2, "missing_roadmap", of, in_dir,
                     Elems(in_dir) \ Elems(in_roadmap))
    IN  Report(s3, "stale_roadmap", of, in_roadmap,
               Elems(in_roadmap) \cap Elems(archived))

\* IntegrityStatus() with the lists read from the docs path.
check_integrity(f) ==
    LET roadmap == parse_roadmap(f.roadmap)
        s0 == [valid |-> TRUE,
               tickets_in_dir |-> get_directories(f.tickets.dirs),
               issues_in_dir |-> get_directories(f.issues.dirs),
               archived_tickets |-> get_directories(f.tickets.archive),
               archived_issues |-> get_directories(f.issues.archive),
               tickets_in_index |-> parse_index(f.tickets.index),
               issues_in_index |-> parse_index(f.issues.index),
               tickets_in_roadmap |-> roadmap.tickets,
               issues_in_roadmap |-> roadmap.issues,
               issues |-> <<>>]
        s1 == CheckItems(s0, "tickets", s0.tickets_in_dir, s0.tickets_in_index,
                         s0.tickets_in_roadmap, s0.archived_tickets)
    IN  CheckItems(s1, "issues", s0.issues_in_dir, s0.issues_in_index,
                   s0.issues_in_roadmap, s0.archived_issues)

\* sys.exit(0 if status.valid else 1)
integrity_main_exit(st) == IF st.valid THEN 0 ELSE 1

\* main of check_integrity.py
CheckIntegrity ==
    /\ integrity_exit = Running
    /\ IF ~fs.docs
       THEN /\ integrity_exit' = NoDocsPathExit
            /\ UNCHANGED integrity_status
       ELSE /\ integrity_status' = check_integrity(fs)
            /\ integrity_exit' = integrity_main_exit(integrity_status')
    /\ UNCHANGED <<fs, status, pc, exit_code, tests_status, tests_pc,
                   tests_exit, writer, phase_status, phase_exit,
                   result, validate_exit>>

(* ------------------------------------------------------------------ *)
(* Specification: one run of check_integrity.py over any directories,  *)
(* indexes and roadmap                                                 *)
(* ------------------------------------------------------------------ *)

\* Largest number of lines of tickets/index.md.
MaxIndex == 2

\* tickets/index.md: lines that start with an id (of a ticket or, misfiled,
\* of an issue), lines that mention a ticket further in, and prose.
IndexLines ==
    {IndexEntry(id) : id \in TicketIds \cup IssueIds}
    \cup {TicketLine("T00001"), Line("prose")}

TicketIndexes ==
    {Absent} \cup
    UNION {{File(ls) : ls \in [1..n -> IndexLines]} : n \in 0..MaxIndex}

IssueIndexes ==
    {Absent, File(<<Line("prose")>>), File(<<IndexEntry("I00001")>>)}

\* roadmap.md: absent, or one line for each item of a set of items.
IntegrityRoadmaps ==
    {Absent} \cup
    {File(SelectSeq(<<TicketLine("I00001"), TicketLine("T00001"),
                      TicketLine("T00002")>>,
                    LAMBDA l : l.word[1] \in ids))
     : ids \in SUBSET (TicketIds \cup IssueIds)}

InitIntegrity ==
    /\ \/ fs = [docs |-> FALSE, roadmap |-> Absent,
                tickets |-> [dirs |-> {}, archive |-> {}, index |-> Absent],
                issues |-> [dirs |-> {}, archive |-> {}, index |-> Absent]]
       \/ \E td \in SUBSET TicketIds, ta \in SUBSET TicketIds,
             ti \in TicketIndexes, sd \in SUBSET IssueIds,
             sa \in SUBSET IssueIds, si \in IssueIndexes,
             r \in IntegrityRoadmaps :
             fs = [docs |-> TRUE, roadmap |-> r,
                   tickets |-> [dirs |-> td, archive |-> ta, index |-> ti],
                   issues |-> [dirs |-> sd, archive |-> sa, index |-> si]]
    /\ status = NewTicketStatus
    /\ pc = "idle"
    /\ exit_code = Running
    /\ TestsIdle
    /\ OthersIdle

NextIntegrity == CheckIntegrity

SpecIntegrity == InitIntegrity /\ [][NextIntegrity]_vars

\* check_integrity has returned an IntegrityStatus.
IntegrityDone == integrity_exit # Running /\ fs.docs

\* The ids at the start of a line of an index.md.
Indexed(items) == Mentioned(items.index.lines, {"entry"})

\* The ids of one kind that roadmap.md mentions.
InRoadmap(ids) == Mentioned(fs.roadmap.lines, {"entry", "ticket"}) \cap ids

\* Every active directory is in the index and in the roadmap, every index
\* entry has an active or an archived directory, and the roadmap names no
\* archived item.
Consistent(items, ids) ==
    /\ items.dirs \subseteq Indexed(items)
    /\ items.dirs \subseteq InRoadmap(ids)
    /\ Indexed(items) \subseteq items.dirs \cup items.archive
    /\ InRoadmap(ids) \cap items.archive = {}

\* C29: check_integrity returns valid = true iff its issue list is empty,
\* which holds iff tickets and issues are both consistent; an index entry
\* whose directory exists only in the archive is never reported as
\* orphan_index; the exit code is 0 iff valid.
C29_ValidIffConsistent ==
    IntegrityDone =>
        LET st == integrity_status
        IN  /\ st.valid <=> st.issues = <<>>
            /\ st.issues = <<>> <=>
                  /\ Consistent(fs.tickets, TicketIds)
                  /\ Consistent(fs.issues, IssueIds)
            /\ \A i \in 1..Len(st.issues) :
                  st.issues[i].type = "orphan_index" =>
                      st.issues[i].item \notin fs[st.issues[i].of].archive
            /\ (integrity_exit = 0) <=> st.valid

\* An archived ticket that is still in tickets/index.md and has left the
\* roadmap: the knowledge base is valid.
C29_Witness ==
    /\ IntegrityDone
    /\ fs.tickets.archive = {"T00001"}
    /\ fs.tickets.dirs = {"T00002"}
    /\ "T00001" \in Indexed(fs.tickets)
    /\ integrity_status.valid
    /\ integrity_exit = 0

(* ------------------------------------------------------------------ *)
(* validate_plan.py                                                    *)
(*                                                                     *)
(* A planning document is a sequence of lines; the kind of a line      *)
(* stands for a text that the patterns of the checks match or not:     *)
(*   h2_env "## Test Environment Setup"   h3_prereq "### Prerequisites"*)
(*   h2_mock "## Mock Data"               h3_unit "### Unit Tests"     *)
(*   h3_integration "### Integration Tests"                            *)
(*   h2_e2e "## E2E Test Procedure"       h3_setup "### Setup"         *)
(*   h3_execution "### Execution"         h3_verification              *)
(*   h2_edge "## Edge Cases"              h2_open "## Open Questions"  *)
(*   env_vars "Environment Variables: ask the team"                    *)
(*   db "Needs the database"              manual "Inspect the page"    *)
(*   sav "Setup, Action, Verify"          question "1. Which port?"    *)
(*   resolved "1. Which port? RESOLVED"   tbd "TBD"                    *)
(*   table "| a | b | c | d |"            bullet "- check"             *)
(*   decisions "Technical Decisions"      files "Files to Modify"      *)
(* ------------------------------------------------------------------ *)

ValidationIssue(severity, category, text, arg) ==
    [severity |-> severity, category |-> category,
     message |-> [text |-> text, arg |-> arg]]

\* The lines of the kinds, as a set of line numbers.
Kind(lines, kinds) == {i \in 1..Len(lines) : lines[i].kind \in kinds}

\* Lines that start with "## " and a character other than "#".
H2 == {"h2_env", "h2_mock", "h2_e2e", "h2_edge", "h2_open"}

\* Lines that start with "###".
H3 == {"h3_prereq", "h3_unit", "h3_integration", "h3_setup", "h3_execution",
       "h3_verification"}

\* group(1) of '<heading>\s*\n(.*?)(?=<stop>|\Z)' (DOTALL) for the first line
\* of the heading's kind: found or not, and the lines after the heading and
\* the blank lines that follow it, up to the next line that follows a
\* newline of the body and is of one of the stop kinds.
Section(lines, heading, stops) ==
    LET heads == Kind(lines, {heading})
    IN  IF heads = {}
        THEN [found |-> FALSE, body |-> <<>>]
        ELSE LET n == Len(lines)
                 nonblank == {i \in (First(heads) + 1)..n : ~IsBlank(lines[i])}
             IN  IF nonblank = {}
                 THEN [found |-> TRUE, body |-> <<>>]
                 ELSE LET start == First(nonblank)
                          ends == {i \in (start + 1)..n : lines[i].kind \in stops}
                          end == IF ends = {} THEN n + 1 ELSE First(ends)
                      IN  [found |-> TRUE, body |-> SubSeq(lines, start, end - 1)]

\* The issues of one check, when its condition holds.
If(cond, issue) == IF cond THEN <<issue>> ELSE <<>>

\* One issue for every line of a set, in line order.
RECURSIVE PerLine(_, _, _)

PerLine(lines, hits, issue) ==
    IF lines = <<>> THEN <<>>
    ELSE PerLine(SubSeq(lines, 1, Len(lines) - 1), hits, issue)
            \o If(Len(lines) \in hits, issue)

check_ambiguity(files) ==
    LET plan == files["2-plan.md"]
        spec == files["3-spec.md"]
        open == Section(spec.lines, "h2_open", H2)
    IN  (IF plan.exists
         THEN PerLine(plan.lines, Kind(plan.lines, {"tbd"}),
                      ValidationIssue("error", "ambiguity", "TBD marker found: ", "line"))
              \o If(Kind(plan.lines, {"decisions"}) = {},
                    ValidationIssue("warning", "ambiguity",
                                    "No Technical Decisions section found", ""))
         ELSE <<>>)
        \o
        (IF spec.exists
         THEN PerLine(open.body, Kind(open.body, {"question"}),
                      ValidationIssue("error", "ambiguity", "Unresolved question: ", "q"))
              \o PerLine(spec.lines, Kind(spec.lines, {"tbd"}),
                         ValidationIssue("error", "ambiguity", "Unresolved marker: ", "line"))
         ELSE <<>>)

check_prerequisites(files) ==
    LET spec == files["3-spec.md"]
        env == Section(spec.lines, "h2_env", H2)
        mock == Section(spec.lines, "h2_mock", H2)
    IN  IF ~spec.exists
        THEN <<ValidationIssue("error", "prerequisites",
                   "3-spec.md not found - cannot verify prerequisites", "")>>
        ELSE (IF ~env.found
              THEN <<ValidationIssue("error", "prerequisites",
                         "Missing 'Test Environment Setup' section", "")>>
              ELSE If(Kind(env.body, {"h3_prereq"}) = {},
                      ValidationIssue("warning", "prerequisites",
                          "No Prerequisites subsection in Test Environment Setup", ""))
                   \o If(Kind(env.body, {"env_vars"}) # {},
                         ValidationIssue("warning", "prerequisites",
                             "Environment Variables section exists but unclear", ""))
                   \o If(Kind(env.body, {"db"}) # {},
                         ValidationIssue("warning", "prerequisites",
                             "Database/State mentioned but setup commands unclear", "")))
             \o If(mock.found /\ Kind(mock.body, {"table"}) = {},
                   ValidationIssue("warning", "prerequisites",
                       "Mock Data section unclear - use table format", ""))

check_testing_methods(files) ==
    LET spec == files["3-spec.md"]
        unit == Section(spec.lines, "h3_unit", H2 \cup H3)
        int == Section(spec.lines, "h3_integration", H2 \cup H3)
        e2e == Section(spec.lines, "h2_e2e", H2)
        verify == Section(e2e.body, "h3_verification", H2 \cup H3)
        edge == Section(spec.lines, "h2_edge", H2)
        Sub(kind, name) ==
            If(Kind(e2e.body, {kind}) = {},
               ValidationIssue("error", "testing",
                               "E2E Test Procedure missing subsection", name))
    IN  IF ~spec.exists
        THEN <<>>
        ELSE If(unit.found /\ Kind(unit.body, {"table"}) = {},
                ValidationIssue("warning", "testing",
                    "Unit tests should use table format with Input/Expected", ""))
             \o If(int.found /\ Kind(int.body, {"sav"}) = {},
                   ValidationIssue("warning", "testing",
                       "Integration tests missing: ", "Setup, Action, Verify"))
             \o (IF ~e2e.found
                 THEN <<ValidationIssue("error", "testing",
                            "Missing 'E2E Test Procedure' section", "")>>
                 ELSE Sub("h3_setup", "Setup")
                      \o Sub("h3_execution", "Execution")
                      \o Sub("h3_verification", "Verification")
                      \o If(verify.found
                              /\ Kind(verify.body, {"table", "bullet"}) = {},
                            ValidationIssue("warning", "testing",
                                "E2E Verification should have specific checks (table or list)", ""))
                      \o If(Kind(e2e.body, {"manual"}) # {},
                            ValidationIssue("warning", "testing",
                                "Manual steps need clear capture/save instructions",
                                "inspection step")))
             \o (IF edge.found
                 THEN If(Kind(edge.body, {"table"}) = {},
                         ValidationIssue("warning", "testing",
                             "Edge cases should use table format", ""))
                 ELSE <<ValidationIssue("warning", "testing",
                            "No Edge Cases section - consider adding", "")>>)

check_repo_management(files, roadmap) ==
    LET plan == files["2-plan.md"]
    IN  IF ~plan.exists
        THEN <<>>
        ELSE (IF Kind(plan.lines, {"files"}) # {}
              THEN If(Kind(plan.lines, {"table"}) = {},
                      ValidationIssue("warning", "prerequisites",
                          "Files to Modify should use table format", ""))
              ELSE <<ValidationIssue("warning", "prerequisites",
                         "No 'Files to Modify' section in plan", "")>>)
             \o If(roadmap.exists
                     /\ ticket_id \notin Mentioned(roadmap.lines, {"ticket"}),
                   ValidationIssue("warning", "prerequisites",
                       " not found in roadmap.md", ticket_id))

required_docs == <<"1-definition.md", "2-plan.md", "3-spec.md">>

\* The message texts that have "missing" in message.lower().
MissingTexts ==
    {"Required document missing: ",
     "Missing 'Test Environment Setup' section",
     "Missing 'E2E Test Procedure' section",
     "E2E Test Procedure missing subsection",
     "Integration tests missing: "}

Select(issues, severity) ==
    SelectSeq(issues, LAMBDA i : i.severity = severity)

\* critical_missing and the status that follows from the issues
PlanStatus(issues) ==
    LET errors == Select(issues, "error")
    IN  IF errors # <<>>
        THEN IF \E k \in 1..Len(errors) :
                    /\ errors[k].message.text \in MissingTexts
                    /\ errors[k].category = "prerequisites"
             THEN "blocked" ELSE "issues"
        ELSE IF Select(issues, "warning") # <<>> THEN "issues" ELSE "valid"

RECURSIVE MissingRequired(_, _)

MissingRequired(docs, files) ==
    IF docs = <<>> THEN <<>>
    ELSE If(~files[Head(docs)].exists,
            ValidationIssue("error", "prerequisites",
                            "Required document missing: ", Head(docs)))
         \o MissingRequired(Tail(docs), files)

validate_ticket(f) ==
    IF ~f.tickets.active.exists /\ ~f.tickets.archive.exists
    THEN [ticket_id |-> ticket_id, status |-> "not_found",
          issues |-> <<ValidationIssue("error", "prerequisites",
                                       " not found", ticket_id)>>]
    ELSE LET files == IF f.tickets.active.exists
                      THEN f.tickets.active.files
                      ELSE f.tickets.archive.files
             issues == MissingRequired(required_docs, files)
                         \o check_ambiguity(files)
                         \o check_prerequisites(files)
                         \o check_testing_methods(files)
                         \o check_repo_management(files, f.roadmap)
         IN  [ticket_id |-> ticket_id, status |-> PlanStatus(issues),
              issues |-> issues]

\* exit_codes.get(result.status, 1)
validate_main_exit(st) ==
    CASE st.status = "valid" -> 0
      [] st.status = "issues" -> 1
      [] st.status = "blocked" -> 2
      [] st.status = "not_found" -> 3
      [] OTHER -> 1

NoDocsResult ==
    [ticket_id |-> ticket_id, status |-> "not_found", issues |-> <<>>]

\* main of validate_plan.py
ValidatePlan ==
    /\ validate_exit = Running
    /\ IF ~fs.docs
       THEN /\ result' = NoDocsResult
            /\ validate_exit' = 3
       ELSE /\ result' = validate_ticket(fs)
            /\ validate_exit' = validate_main_exit(result')
    /\ UNCHANGED <<fs, status, pc, exit_code, tests_status, tests_pc, tests_exit,
                   writer, phase_status, phase_exit, integrity_status,
                   integrity_exit>>

(* ------------------------------------------------------------------ *)
(* The planning documents a validation can find                        *)
(* ------------------------------------------------------------------ *)

\* How many sections of 3-spec.md differ from the complete document.
MaxFaults == 2

Lines(kinds) == [i \in 1..Len(kinds) |-> Line(kinds[i])]

\* The variants of each section of 3-spec.md; the first is the one of a
\* complete document.
SectionVariants ==
    [env |-> <<"full", "none", "no_prereq", "unclear_vars", "db">>,
     unit |-> <<"none", "table", "prose">>,
     integration |-> <<"none", "full", "partial">>,
     mock |-> <<"none", "table", "unclear">>,
     e2e |-> <<"full", "none", "no_execution", "no_checks", "manual">>,
     edge |-> <<"table", "none", "prose">>,
     open |-> <<"none", "unresolved", "resolved">>,
     marker |-> <<"none", "tbd">>]

SectionNames == DOMAIN SectionVariants

Variants(n) == {SectionVariants[n][k] : k \in 1..Len(SectionVariants[n])}

SpecShapes ==
    {sh \in [env : Variants("env"), unit : Variants("unit"),
             integration : Variants("integration"), mock : Variants("mock"),
             e2e : Variants("e2e"), edge : Variants("edge"),
             open : Variants("open"), marker : Variants("marker")] :
        Cardinality({n \in SectionNames : sh[n] # SectionVariants[n][1]})
            <= MaxFaults}

\* The text of 3-spec.md with the sections in the variants of a shape.
SpecText(sh) ==
    Lines(
      (CASE sh.env = "full" -> <<"h2_env", "h3_prereq", "prose">>
         [] sh.env = "no_prereq" -> <<"h2_env", "prose">>
         [] sh.env = "unclear_vars" -> <<"h2_env", "h3_prereq", "env_vars">>
         [] sh.env = "db" -> <<"h2_env", "h3_prereq", "db">>
         [] OTHER -> <<>>)
      \o (CASE sh.unit = "table" -> <<"h3_unit", "table">>
            [] sh.unit = "prose" -> <<"h3_unit", "prose">>
            [] OTHER -> <<>>)
      \o (CASE sh.integration = "full" -> <<"h3_integration", "sav">>
            [] sh.integration = "partial" -> <<"h3_integration", "prose">>
            [] OTHER -> <<>>)
      \o (CASE sh.mock = "table" -> <<"h2_mock", "table">>
            [] sh.mock = "unclear" -> <<"h2_mock", "prose">>
            [] OTHER -> <<>>)
      \o (CASE sh.e2e = "full" ->
                 <<"h2_e2e", "h3_setup", "prose", "h3_execution", "prose",
                   "h3_verification", "bullet">>
            [] sh.e2e = "no_execution" ->
                 <<"h2_e2e", "h3_setup", "prose", "h3_verification", "bullet">>
            [] sh.e2e = "no_checks" ->
                 <<"h2_e2e", "h3_setup", "prose", "h3_execution", "prose",
                   "h3_verification", "prose">>
            [] sh.e2e = "manual" ->
                 <<"h2_e2e", "h3_setup", "prose", "h3_execution", "manual",
                   "h3_verification", "bullet">>
            [] OTHER -> <<>>)
      \o (CASE sh.edge = "table" -> <<"h2_edge", "table">>
            [] sh.edge = "prose" -> <<"h2_edge", "prose">>
            [] OTHER -> <<>>)
      \o (CASE sh.open = "unresolved" -> <<"h2_open", "question">>
            [] sh.open = "resolved" -> <<"h2_open", "resolved">>
            [] OTHER -> <<>>)
      \o (CASE sh.marker = "tbd" -> <<"tbd">>
            [] OTHER -> <<>>))

SpecDocuments == {Absent} \cup {File(SpecText(sh)) : sh \in SpecShapes}

PlanTexts ==
    {Lines(d \o f \o m) :
        d \in {<<>>, <<"decisions">>},
        f \in {<<>>, <<"files", "prose">>, <<"files", "table">>},
        m \in {<<>>, <<"tbd">>}}

PlanRoadmaps ==
    {Absent, File(<<TicketLine(ticket_id)>>), File(<<TicketLine("T00001")>>)}

NoDir == [exists |-> FALSE, files |-> [d \in {} |-> Absent]]

EmptyDir ==
    [exists |-> TRUE,
     files |-> [d \in {required_docs[k] : k \in 1..Len(required_docs)} |-> Absent]]

InitValidate ==
    /\ \E docs \in BOOLEAN, where \in {"active", "archive", "both", "none"},
          definition \in {Absent, File(<<Line("prose")>>)},
          plan \in {Absent} \cup {File(t) : t \in PlanTexts},
          spec \in SpecDocuments, roadmap \in PlanRoadmaps :
         LET dir == [exists |-> TRUE,
                     files |-> ("1-definition.md" :> definition)
                                 @@ ("2-plan.md" :> plan)
                                 @@ ("3-spec.md" :> spec)]
         IN  \* One state stands for every tree without a docs directory and
             \* one for every tree without the ticket.
             /\ ~docs => /\ where = "none" /\ roadmap = Absent
             /\ where = "none" => /\ definition = Absent /\ plan = Absent
                                  /\ spec = Absent
             /\ fs = [docs |-> docs,
                      roadmap |-> roadmap,
                      tickets |->
                        [active |-> IF where \in {"active", "both"}
                                    THEN dir ELSE NoDir,
                         archive |-> CASE where = "archive" -> dir
                                       [] where = "both" -> EmptyDir
                                       [] OTHER -> NoDir]]
    /\ status = NewTicketStatus
    /\ pc = "idle"
    /\ exit_code = Running
    /\ TestsIdle
    /\ OthersIdle

NextValidate == ValidatePlan

SpecValidate == InitValidate /\ [][NextValidate]_vars

\* validate_ticket has returned a ValidationResult.
ValidateDone == validate_exit # Running /\ fs.docs

\* The directory validate_ticket reads.
TicketPath ==
    IF fs.tickets.active.exists THEN fs.tickets.active ELSE fs.tickets.archive

Recorded(severity) ==
    {k \in 1..Len(result.issues) : result.issues[k].severity = severity}

\* A section the script calls critical is not in 3-spec.md: the Test
\* Environment Setup section or the E2E Test Procedure section.
CriticalSectionMissing ==
    /\ TicketPath.exists
    /\ TicketPath.files["3-spec.md"].exists
    /\ \/ Kind(TicketPath.files["3-spec.md"].lines, {"h2_env"}) = {}
       \/ Kind(TicketPath.files["3-spec.md"].lines, {"h2_e2e"}) = {}

\* C30: the status is "not_found" iff neither the active nor the archived
\* ticket directory exists; otherwise it is "valid" iff no error and no
\* warning was recorded, "blocked" iff some error of category "prerequisites"
\* has "missing" in its message (a required document or the Test Environment
\* Setup section is missing), and "issues" in the remaining cases; the exit
\* code is 0, 1, 2, 3 for valid, issues, blocked, not_found; a plan that
\* misses a critical section exits with 2.
C30_StatusAndExitCodes ==
    validate_exit # Running =>
      /\ validate_exit = (CASE result.status = "valid" -> 0
                            [] result.status = "issues" -> 1
                            [] result.status = "blocked" -> 2
                            [] result.status = "not_found" -> 3)
      /\ ValidateDone =>
           LET blocking ==
                 \E k \in Recorded("error") :
                    /\ result.issues[k].category = "prerequisites"
                    /\ result.issues[k].message.text \in MissingTexts
               clean == Recorded("error") = {} /\ Recorded("warning") = {}
           IN  /\ result.status = "not_found" <=> ~TicketPath.exists
               /\ TicketPath.exists =>
                    /\ result.status = "valid" <=> clean
                    /\ result.status = "blocked" <=> blocking
                    /\ result.status = "issues" <=> ~clean /\ ~blocking
                    /\ blocking <=>
                         \/ \E k \in 1..Len(required_docs) :
                               ~TicketPath.files[required_docs[k]].exists
                         \/ Kind(TicketPath.files["3-spec.md"].lines, {"h2_env"}) = {}
               /\ CriticalSectionMissing => validate_exit = 2

====
